---- MODULE Spec2Model ----
(***************************************************************************)
(* Request orchestration layer of llm-code-analyzer: the token-bucket      *)
(* RateLimiter and the RequestQueue (providers/claude/rateLimiter.ts),     *)
(* the ResponseCache (providers/claude/cache.ts), withRetry                *)
(* (providers/claude/retry.ts) and their composition in ClaudeProvider     *)
(* (providers/claude/ClaudeProvider.ts).                                   *)
(*                                                                         *)
(* One action is one run-to-completion segment of the JavaScript event     *)
(* loop: the code between two suspension points (await of a timer, of the  *)
(* backend, of a settled promise).  Date.now() is the variable now, which  *)
(* only Tick advances; a timer fires at or after its deadline.             *)
(*                                                                         *)
(* Strings are sequences of tokens.  SHA-256 is modelled as injective on   *)
(* its input, so a digest is represented by the hashed token sequence.     *)
(***************************************************************************)
EXTENDS Integers, Sequences, FiniteSets, TLC

VARIABLES
    now,        \* Date.now()
    cache,      \* ResponseCache.cache: Map<string, CacheEntry>
    lastSet,    \* history: arguments and time of the latest ResponseCache.set
    rt,         \* one withRetry call: its locals, position and history
    rl,         \* RateLimiter: tokens, maxTokens, refillRate, lastRefill
    waiters,    \* the callers of waitForToken: position, amount, timer deadline
    rq,         \* RequestQueue: queue, processing, maxConcurrent
    tasks,      \* the tasks given to RequestQueue.enqueue, by arrival number
    startOrder, \* history: the tasks in the order their bodies were started
    prov,       \* ClaudeProvider: options, cleanupInterval; history: cleared
    calls,      \* the analyze calls of the provider, by issue number
    lastOp,     \* history: the operation the latest step performed
    batch       \* one analyzeBatch call: its items, their calls, its promise

cacheVars == <<cache, lastSet>>

limiterVars == <<rl, waiters>>
queueVars == <<rq, tasks, startOrder>>

providerVars == <<prov, calls>>

vars == <<now, cache, lastSet, rt, rl, waiters, rq, tasks, startOrder, prov, calls,
          lastOp, batch>>

\* the variables each component leaves alone
notCache == <<rt, limiterVars, queueVars, providerVars, batch>>
notRetry == <<now, cacheVars, limiterVars, queueVars, providerVars, batch>>
notLimiter == <<cacheVars, rt, queueVars, providerVars, batch>>
notQueue == <<now, cacheVars, rt, limiterVars, providerVars, batch>>
notProvider == <<lastSet, rt, waiters, tasks, startOrder, lastOp, batch>>
notBatch == <<lastSet, rt, waiters, tasks, startOrder, lastOp>>

(***************************************************************************)
(* Bounds of the model                                                     *)
(***************************************************************************)
MaxTime == 2
MaxEntries == 2

Min(a, b) == IF a <= b THEN a ELSE b

Null == "null"

\* the clock advances
Tick ==
    /\ now < MaxTime
    /\ now' = now + 1
    /\ lastOp' = [op |-> "tick"]

(***************************************************************************)
(* ResponseCache                                                           *)
(***************************************************************************)
\* constructor(defaultTTL): the value the cache of the model is built with
DefaultTTL == 2

Contents == {<<"x">>, <<"x", "{", "}">>}
Values == {"v1", "v2"}
OptKeys == {"language", "rules"}
OptVals == {"a"}

\* options?: Record<string, any>: absent, or the entries in insertion order
NoOptions == [present |-> FALSE, kv |-> <<>>]
Pairs == OptKeys \X OptVals
OptionSamples ==
    {NoOptions}
      \cup {[present |-> TRUE, kv |-> <<>>]}
      \cup {[present |-> TRUE, kv |-> <<pq[1], pq[2]>>] :
                pq \in {x \in Pairs \X Pairs : x[1][1] # x[2][1]}}

\* ttl?: number: undefined, or a number
NoTTL == [given |-> FALSE, t |-> 0]
TTLArgs == {NoTTL} \cup {[given |-> TRUE, t |-> t] : t \in 0..1}

\* JSON.stringify(options): the entries in insertion order
RECURSIVE stringifyEntries(_)
stringifyEntries(kv) ==
    IF kv = <<>> THEN <<>>
    ELSE <<kv[1][1], ":", kv[1][2]>>
           \o (IF Len(kv) > 1 THEN <<",">> ELSE <<>>)
           \o stringifyEntries(Tail(kv))

stringify(kv) == <<"{">> \o stringifyEntries(kv) \o <<"}">>

generateKey(content, options) ==
    IF options.present THEN content \o stringify(options.kv) ELSE content

\* now - entry.timestamp > entry.ttl
expired(entry, t) == t - entry.timestamp > entry.ttl

\* get: the value returned and the map after the call
CacheGet(c, content, options, t) ==
    LET key == generateKey(content, options) IN
    IF key \notin DOMAIN c THEN [value |-> Null, cache |-> c]
    ELSE IF expired(c[key], t)
         THEN [value |-> Null, cache |-> [k \in DOMAIN c \ {key} |-> c[k]]]
         ELSE [value |-> c[key].value, cache |-> c]

\* ttl || this.defaultTTL
effectiveTTL(ttl, defaultTTL) ==
    IF ttl.given /\ ttl.t # 0 THEN ttl.t ELSE defaultTTL

CacheSet(c, content, value, options, ttl, defaultTTL, t) ==
    LET key == generateKey(content, options)
        entry == [value |-> value, timestamp |-> t,
                  ttl |-> effectiveTTL(ttl, defaultTTL)]
    IN [k \in DOMAIN c \cup {key} |-> IF k = key THEN entry ELSE c[k]]

CacheHas(c, content, options, t) ==
    LET r == CacheGet(c, content, options, t) IN
    [value |-> r.value # Null, cache |-> r.cache]

\* cleanup with the operands of the age swapped (entry.timestamp - now > ttl)
CacheCleanup_Swapped(c, t) ==
    LET live == {k \in DOMAIN c : ~(c[k].timestamp - t > c[k].ttl)} IN [k \in live |-> c[k]]

\* cleanup that also removes the entries whose age equals their ttl
CacheCleanup_Inclusive(c, t) ==
    LET live == {k \in DOMAIN c : t - c[k].timestamp < c[k].ttl} IN [k \in live |-> c[k]]

CacheCleanup(c, t) ==
    LET live == {k \in DOMAIN c : ~expired(c[k], t)} IN [k \in live |-> c[k]]

EmptyCache == [k \in {} |-> Null]

NoSet == [done |-> FALSE]

(***************************************************************************)
(* RateLimiter (rateLimiter.ts)                                            *)
(*                                                                         *)
(* The float token count is kept in fixed point: one token is TokenUnit    *)
(* units.  refillRate is in units per tick of the clock, so that           *)
(* timePassed * refillRate is (now - lastRefill) * refillRate.             *)
(***************************************************************************)
TokenUnit == 2

NewRateLimiter(maxTokens, refillRate, t) ==
    [tokens |-> maxTokens, maxTokens |-> maxTokens,
     refillRate |-> refillRate, lastRefill |-> t]

\* refill without the clamp to maxTokens
refill_NoClamp(r, t) ==
    [r EXCEPT !.tokens = r.tokens + (t - r.lastRefill) * r.refillRate,
              !.lastRefill = t]

\* refill that leaves lastRefill where it was
refill_KeepLastRefill(r, t) ==
    [r EXCEPT !.tokens = Min(r.maxTokens, r.tokens + (t - r.lastRefill) * r.refillRate)]

refill(r, t) ==
    LET timePassed == t - r.lastRefill
        tokensToAdd == timePassed * r.refillRate
    IN [r EXCEPT !.tokens = Min(r.maxTokens, r.tokens + tokensToAdd),
                 !.lastRefill = t]

\* tryConsume that takes what the bucket holds when it holds too little
tryConsume_Drain(r, n, t) ==
    LET r1 == refill(r, t) IN
    IF r1.tokens >= n
    THEN [rl |-> [r1 EXCEPT !.tokens = @ - n], ok |-> TRUE]
    ELSE [rl |-> [r1 EXCEPT !.tokens = 0], ok |-> FALSE]

tryConsume(r, n, t) ==
    LET r1 == refill(r, t) IN
    IF r1.tokens >= n
    THEN [rl |-> [r1 EXCEPT !.tokens = @ - n], ok |-> TRUE]
    ELSE [rl |-> r1, ok |-> FALSE]

\* a timer fires no earlier than its delay: the delay in whole ticks, rounded up
CeilDiv(a, b) == (a + b - 1) \div b

\* waitForToken up to its await: granted at once, or the time to wait
waitForTokenStart(r, n, t) ==
    LET r1 == refill(r, t) IN
    IF r1.tokens >= n
    THEN [rl |-> [r1 EXCEPT !.tokens = @ - n], granted |-> TRUE, waitTime |-> 0]
    ELSE LET tokensNeeded == n - r1.tokens IN
         [rl |-> r1, granted |-> FALSE, waitTime |-> CeilDiv(tokensNeeded, r1.refillRate)]

\* waitForToken after its await: this.tokens = 0
waitForTokenResume(r) == [r EXCEPT !.tokens = 0]

getTokens(r, t) == refill(r, t)

reset(r, t) == [r EXCEPT !.tokens = r.maxTokens, !.lastRefill = t]

IdleWaiter == [pc |-> "idle", n |-> 0, deadline |-> 0]
NoWaiters == [w \in {} |-> IdleWaiter]

(***************************************************************************)
(* RequestQueue (rateLimiter.ts)                                           *)
(***************************************************************************)
NewRequestQueue(maxConcurrent) ==
    [queue |-> <<>>, processing |-> 0, maxConcurrent |-> maxConcurrent]

\* processQueue without the test of the processing counter
processQueue_NoCeiling(q) ==
    IF q.queue = <<>>
    THEN [rq |-> q, started |-> <<>>]
    ELSE [rq |-> [q EXCEPT !.queue = Tail(@), !.processing = @ + 1],
          started |-> <<Head(q.queue)>>]

\* processQueue that starts the oldest request without removing it (queue[0])
processQueue_Peek(q) ==
    IF q.processing >= q.maxConcurrent \/ q.queue = <<>>
    THEN [rq |-> q, started |-> <<>>]
    ELSE [rq |-> [q EXCEPT !.processing = @ + 1], started |-> <<Head(q.queue)>>]

\* processQueue taking the newest request (queue.pop()) instead of the oldest
processQueue_Newest(q) ==
    IF q.processing >= q.maxConcurrent \/ q.queue = <<>>
    THEN [rq |-> q, started |-> <<>>]
    ELSE [rq |-> [q EXCEPT !.queue = SubSeq(@, 1, Len(@) - 1), !.processing = @ + 1],
          started |-> <<q.queue[Len(q.queue)]>>]

\* processQueue up to `await request()`: the queue after it, and the request
\* whose body it started, if any
processQueue(q) ==
    IF q.processing >= q.maxConcurrent \/ q.queue = <<>>
    THEN [rq |-> q, started |-> <<>>]
    ELSE [rq |-> [q EXCEPT !.queue = Tail(@), !.processing = @ + 1],
          started |-> <<Head(q.queue)>>]

\* enqueue that pushes the task without a dispatch pass
enqueue_NoDispatch(q, id) ==
    [rq |-> [q EXCEPT !.queue = Append(@, id)], started |-> <<>>]

\* enqueue: queue.push(...); this.processQueue()
enqueue(q, id) == processQueue([q EXCEPT !.queue = Append(@, id)])

\* a finally block that dispatches without freeing the slot
processQueueFinally_KeepSlot(q) == processQueue(q)

\* the task the queue runs: the promise of enqueue resolves when request()
\* resolves and rejects, with the same error, when it rejects
settle(outcome) == IF outcome = "rejected" THEN "rejected" ELSE "resolved"

\* a finally block that frees the slot without dispatching the next task
processQueueFinally_NoDispatch(q) ==
    [rq |-> [q EXCEPT !.processing = @ - 1], started |-> <<>>]

\* the finally block of processQueue: this.processing--; this.processQueue()
processQueueFinally(q) == processQueue([q EXCEPT !.processing = @ - 1])

\* clear that also forgets the tasks in flight
clear_ResetProcessing(q) == [q EXCEPT !.queue = <<>>, !.processing = 0]

clear(q) == [q EXCEPT !.queue = <<>>]

getStats(q) == [queued |-> Len(q.queue), processing |-> q.processing]

NoTasks == [i \in {} |-> "pending"]

(***************************************************************************)
(* withRetry (retry.ts)                                                    *)
(*                                                                         *)
(* An error is a record of the fields isRetryableError reads.  A string is *)
(* a sequence of tokens and s.includes(t) is "t is a token of s".  A       *)
(* missing field is the empty string, a missing status is 0 (both falsy,   *)
(* as undefined is).  The field id tells the throws apart.                 *)
(***************************************************************************)
DEFAULT_maxRetries == 3
DEFAULT_baseDelay == 1000
DEFAULT_maxDelay == 30000
DEFAULT_backoffMultiplier == 2
DEFAULT_retryableErrors ==
    <<"rate_limit_error", "timeout", "server_error", "network_error",
      "ECONNRESET", "ETIMEDOUT", "ENOTFOUND">>

DEFAULT_RETRY_OPTIONS ==
    [maxRetries |-> DEFAULT_maxRetries, baseDelay |-> DEFAULT_baseDelay,
     maxDelay |-> DEFAULT_maxDelay, backoffMultiplier |-> DEFAULT_backoffMultiplier,
     retryableErrors |-> DEFAULT_retryableErrors]

\* { ...DEFAULT_RETRY_OPTIONS, ...options }
mergeOptions(options) ==
    [n \in DOMAIN DEFAULT_RETRY_OPTIONS |->
        IF n \in DOMAIN options THEN options[n] ELSE DEFAULT_RETRY_OPTIONS[n]]

includes(s, t) == \E i \in DOMAIN s : s[i] = t

Err(falsy, message, type, code, status, statusCode) ==
    [falsy |-> falsy, message |-> message, type |-> type, code |-> code,
     status |-> status, statusCode |-> statusCode, api |-> FALSE, id |-> 0]

\* the errors an action of the model raises
ErrRateLimit == Err(FALSE, <<"rate_limit_error">>, <<>>, <<>>, 0, 0)
ErrStatus503 == Err(FALSE, <<"Service", "Unavailable">>, <<>>, <<>>, 0, 503)
ErrConnReset == Err(FALSE, <<"socket", "hang", "up">>, <<>>, <<"ECONNRESET">>, 0, 0)
ErrAuth == Err(FALSE, <<"invalid", "x-api-key">>, <<"authentication_error">>, <<>>, 401, 0)
ErrNull == Err(TRUE, <<>>, <<>>, <<>>, 0, 0)
ErrorSamples == {ErrRateLimit, ErrStatus503, ErrConnReset, ErrAuth, ErrNull}

isRetryableError(error, retryableErrors) ==
    IF error.falsy THEN FALSE
    ELSE LET errorMessage == error.message
             errorType == IF error.type # <<>> THEN error.type ELSE error.code
             statusCode == IF error.status # 0 THEN error.status ELSE error.statusCode
         IN IF \E i \in DOMAIN retryableErrors :
                   \/ includes(errorMessage, retryableErrors[i])
                   \/ includes(errorType, retryableErrors[i])
            THEN TRUE
            ELSE statusCode = 429 \/ statusCode = 503 \/ statusCode = 500

RECURSIVE Pow(_, _)
Pow(b, e) == IF e = 0 THEN 1 ELSE b * Pow(b, e - 1)

\* Math.random() is r / RandomDen for some r in 0 .. RandomDen - 1
RandomDen == 4
Randoms == 0..(RandomDen - 1)

\* calculateDelay whose jitter is taken off the delay
calculateDelay_SubtractsJitter(attempt, baseDelay, maxDelay, backoffMultiplier, r) ==
    LET exponentialDelay == baseDelay * Pow(backoffMultiplier, attempt)
        delay == Min(exponentialDelay, maxDelay)
        jitter == (delay * r) \div (10 * RandomDen)
    IN delay - jitter

\* delay + delay * 0.1 * Math.random()
calculateDelay(attempt, baseDelay, maxDelay, backoffMultiplier, r) ==
    LET exponentialDelay == baseDelay * Pow(backoffMultiplier, attempt)
        delay == Min(exponentialDelay, maxDelay)
        jitter == (delay * r) \div (10 * RandomDen)
    IN delay + jitter

RetryIdle == [pc |-> "idle"]

\* withRetry(fn, options) up to its first await: the loop is entered and, when
\* 0 <= maxRetries, fn is invoked; otherwise the undefined lastError is thrown
retryStart(options) ==
    LET opts == mergeOptions(options) IN
    IF 0 <= opts.maxRetries
    THEN [pc |-> "calling", opts |-> opts, attempt |-> 0, lastError |-> ErrNull,
          invocations |-> 1, raised |-> <<>>, delays |-> <<>>]
    ELSE [pc |-> "rejected", opts |-> opts, attempt |-> 0, lastError |-> ErrNull,
          invocations |-> 0, raised |-> <<>>, delays |-> <<>>, thrown |-> ErrNull]

\* return await fn()
retryResolved(r, value) ==
    [r EXCEPT !.pc = "resolved"] @@ [value |-> value]

\* retryCaught with the exhaustion test off by one (attempt + 1 >= maxRetries)
retryCaught_OffByOne(r, error, rnd) ==
    LET r1 == [r EXCEPT !.lastError = error, !.raised = Append(@, error)] IN
    IF r1.attempt + 1 >= r1.opts.maxRetries
    THEN [r1 EXCEPT !.pc = "rejected"] @@ [thrown |-> r1.lastError]
    ELSE IF ~isRetryableError(error, r1.opts.retryableErrors)
    THEN [r1 EXCEPT !.pc = "rejected"] @@ [thrown |-> error]
    ELSE [r1 EXCEPT !.pc = "sleeping",
                    !.delays = Append(@, calculateDelay(r1.attempt, r1.opts.baseDelay,
                                         r1.opts.maxDelay, r1.opts.backoffMultiplier, rnd))]

\* retryCaught without the classifier: every error is retried
retryCaught_AlwaysRetry(r, error, rnd) ==
    LET r1 == [r EXCEPT !.lastError = error, !.raised = Append(@, error)] IN
    IF r1.attempt >= r1.opts.maxRetries
    THEN [r1 EXCEPT !.pc = "rejected"] @@ [thrown |-> r1.lastError]
    ELSE [r1 EXCEPT !.pc = "sleeping",
                    !.delays = Append(@, calculateDelay(r1.attempt, r1.opts.baseDelay,
                                         r1.opts.maxDelay, r1.opts.backoffMultiplier, rnd))]

\* the catch block: fn rejected with error; Math.random() drew rnd
retryCaught(r, error, rnd) ==
    LET r1 == [r EXCEPT !.lastError = error, !.raised = Append(@, error)] IN
    IF r1.attempt >= r1.opts.maxRetries
    THEN [r1 EXCEPT !.pc = "rejected"] @@ [thrown |-> r1.lastError]
    ELSE IF ~isRetryableError(error, r1.opts.retryableErrors)
    THEN [r1 EXCEPT !.pc = "rejected"] @@ [thrown |-> error]
    ELSE [r1 EXCEPT !.pc = "sleeping",
                    !.delays = Append(@, calculateDelay(r1.attempt, r1.opts.baseDelay,
                                         r1.opts.maxDelay, r1.opts.backoffMultiplier, rnd))]

\* the timer of the delay fired: attempt++, the loop test, fn()
retryWake(r) ==
    LET a == r.attempt + 1 IN
    IF a <= r.opts.maxRetries
    THEN [r EXCEPT !.pc = "calling", !.attempt = a, !.invocations = @ + 1]
    ELSE [r EXCEPT !.pc = "rejected", !.attempt = a] @@ [thrown |-> r.lastError]

(***************************************************************************)
(* ClaudeProvider (ClaudeProvider.ts)                                      *)
(*                                                                         *)
(* The state the provider's operations act on is the record                *)
(* [cache, rl, rq, calls] of its ResponseCache, RateLimiter, RequestQueue  *)
(* and the analyze calls issued so far.  A call is                         *)
(*   hit       analyze returned the cached value                           *)
(*   threw     cache.get threw inside analyze, whose promise rejected      *)
(*   pending   its task is in the queue                                    *)
(*   dropped   its task was removed by requestQueue.clear()                *)
(*   waiting   its task awaits the timer of waitForToken                   *)
(*   granted   waitForToken returned; analyzeWithRetry not yet entered     *)
(*   calling   a backend invocation (client.messages.create) is outstanding*)
(*   sleeping  withRetry awaits the timer of its delay                     *)
(*   resolved, rejected   the promise of analyze is settled; the finally   *)
(*             block of processQueue has not run yet                       *)
(*   done      the finally block has run                                   *)
(* History kept with a call: resolvedAt, the time its analysis resolved,   *)
(* and kept, whether no clearCache() or destroy() was called since.        *)
(* The clock of the provider ticks every MsPerTick milliseconds.           *)
(***************************************************************************)
MsPerTick == 1000

\* the options of the model's provider: rateLimitTokens, rateLimitRefillRate
\* (in units and units per tick), cacheTTL (in ticks), maxConcurrency, enableCache
ProviderEnableCache == TRUE
ProviderMaxConcurrency == 2
ProviderRateLimitTokens == TokenUnit
ProviderRefillRate == 2
ProviderCacheTTL == 1

\* the options analyzeWithRetry passes to withRetry
ProviderRetryOptions ==
    [maxRetries |-> 3, baseDelay |-> 1000, maxDelay |-> 30000, backoffMultiplier |-> 2]

NoProvider ==
    [enableCache |-> FALSE, cleanupInterval |-> FALSE, cleared |-> FALSE, adminCalls |-> 0]
NoCalls == [i \in {} |-> Null]

NewProvider(enableCache) ==
    [enableCache |-> enableCache, cleanupInterval |-> enableCache, cleared |-> FALSE,
     adminCalls |-> 0]

NewCall(req, phase) ==
    [req |-> req, phase |-> phase, result |-> Null,
     retry |-> RetryIdle, deadline |-> 0, resolvedAt |-> 0, kept |-> FALSE]

\* an Anthropic.APIError of the SDK
APIErr(status, message, type) ==
    [Err(FALSE, message, type, <<>>, status, 0) EXCEPT !.api = TRUE]

\* the catch block of callClaudeAPI: an APIError is replaced by
\* new Error(`Claude API Error (${error.status}): ${error.message}`)
wrapError(e) ==
    IF e.api
    THEN Err(FALSE, <<"Claude", "API", "Error", "(", ToString(e.status), "):">> \o e.message,
             <<>>, <<>>, 0, 0)
    ELSE e

\* an options value that refers back to the options object
Circular == "[Circular]"

\* JSON.stringify(options) throws a TypeError on a circular structure
stringifyThrows(options) ==
    options.present /\ \E i \in DOMAIN options.kv : options.kv[i][2] = Circular

ErrCircular == Err(FALSE, <<"Converting", "circular", "structure", "to", "JSON">>,
                   <<>>, <<>>, 0, 0)

\* a payload of the backend: which of the top-level fields issues, suggestions
\* and metrics the parsed JSON has
Payload(issues, suggestions, metrics) ==
    [issues |-> issues, suggestions |-> suggestions, metrics |-> metrics]

\* the error parseResponse throws for a payload of the wrong structure: the
\* error of the validation, caught and thrown again with a prefix
ErrInvalidStructure ==
    Err(FALSE, <<"Failed", "to", "parse", "Claude", "API", "response:",
                 "Invalid", "response", "structure", "from", "Claude", "API">>,
        <<>>, <<>>, 0, 0)

\* parseResponse that fills in the fields a payload lacks
parseResponse_Lenient(payload) == [ok |-> TRUE, error |-> ErrNull]

\* parseResponse: !parsed.issues || !parsed.suggestions || !parsed.metrics
parseResponse(payload) ==
    IF ~payload.issues \/ ~payload.suggestions \/ ~payload.metrics
    THEN [ok |-> FALSE, error |-> ErrInvalidStructure]
    ELSE [ok |-> TRUE, error |-> ErrNull]

\* a task body that calls the backend without awaiting a token
startBody_SkipToken(P, started, t) ==
    IF started = <<>> THEN P
    ELSE [P EXCEPT !.calls[started[1]].phase = "calling",
                   !.calls[started[1]].retry = retryStart(ProviderRetryOptions)]

\* the task body up to its first suspension: await this.rateLimiter.waitForToken()
startBody(P, started, t) ==
    IF started = <<>> THEN P
    ELSE LET id == started[1]
             r == waitForTokenStart(P.rl, TokenUnit, t)
         IN [P EXCEPT !.rl = r.rl,
                      !.calls[id].phase = IF r.granted THEN "granted" ELSE "waiting",
                      !.calls[id].deadline = IF r.granted THEN 0 ELSE t + r.waitTime]

\* analyze that enqueues the request although the cache holds its result
analyze_IgnoreHit(P, cfg, req, t) ==
    LET id == Cardinality(DOMAIN P.calls) + 1
        g == CacheGet(P.cache, req.content, req.options, t)
        e == enqueue(P.rq, id)
    IN startBody([cache |-> IF cfg.enableCache THEN g.cache ELSE P.cache,
                  rl |-> P.rl,
                  rq |-> e.rq,
                  calls |-> [i \in DOMAIN P.calls \cup {id} |->
                               IF i = id THEN NewCall(req, "pending")
                               ELSE P.calls[i]]],
                 e.started, t)

\* analyze(content, options) up to its return or first suspension
analyze(P, cfg, req, t) ==
    LET id == Cardinality(DOMAIN P.calls) + 1
        g == CacheGet(P.cache, req.content, req.options, t)
    IN IF cfg.enableCache /\ stringifyThrows(req.options)
       THEN [P EXCEPT !.calls = [i \in DOMAIN P.calls \cup {id} |->
                                   IF i = id THEN NewCall(req, "threw")
                                   ELSE P.calls[i]]]
       ELSE IF cfg.enableCache /\ g.value # Null
       THEN [P EXCEPT !.cache = g.cache,
                      !.calls = [i \in DOMAIN P.calls \cup {id} |->
                                   IF i = id
                                   THEN [NewCall(req, "hit") EXCEPT !.result = g.value]
                                   ELSE P.calls[i]]]
       ELSE LET e == enqueue(P.rq, id) IN
            startBody([cache |-> IF cfg.enableCache THEN g.cache ELSE P.cache,
                       rl |-> P.rl,
                       rq |-> e.rq,
                       calls |-> [i \in DOMAIN P.calls \cup {id} |->
                                    IF i = id THEN NewCall(req, "pending")
                                    ELSE P.calls[i]]],
                      e.started, t)

\* analyzeBatch: items.map(item => this.analyze(...)), in the order of the items
RECURSIVE analyzeBatch(_, _, _, _)
analyzeBatch(P, cfg, items, t) ==
    IF items = <<>> THEN P
    ELSE analyzeBatch(analyze(P, cfg, items[1], t), cfg, Tail(items), t)

\* waitForToken resumed after its timer, in the task of call id
tokenTimer(P, id) ==
    [P EXCEPT !.rl = waitForTokenResume(P.rl),
              !.calls[id].phase = "granted",
              !.calls[id].deadline = 0]

\* analyzeWithRetry entered: withRetry invokes callClaudeAPI
invoke(P, id) ==
    [P EXCEPT !.calls[id].phase = "calling",
              !.calls[id].retry = retryStart(ProviderRetryOptions)]

\* the backend answered without the cache being written
backendOk_NoCacheWrite(P, cfg, id, value, t) ==
    [P EXCEPT !.calls[id].phase = "resolved",
              !.calls[id].result = value,
              !.calls[id].resolvedAt = t,
              !.calls[id].kept = TRUE,
              !.calls[id].retry = retryResolved(@, value)]

\* the backend answered and parseResponse accepted the payload: the result is
\* cached and returned through withRetry to the caller of enqueue
backendOk(P, cfg, id, value, t) ==
    LET c == P.calls[id] IN
    [P EXCEPT !.cache = IF cfg.enableCache
                        THEN CacheSet(@, c.req.content, value, c.req.options,
                                      NoTTL, ProviderCacheTTL, t)
                        ELSE @,
              !.calls[id].phase = "resolved",
              !.calls[id].result = value,
              !.calls[id].resolvedAt = t,
              !.calls[id].kept = TRUE,
              !.calls[id].retry = retryResolved(@, value)]

\* a failure that leaves an entry for the request in the cache
backendFailed_CachesError(P, id, error, rnd, t) ==
    LET c == P.calls[id]
        r == retryCaught(c.retry, [wrapError(error) EXCEPT !.id = c.retry.invocations], rnd)
    IN [P EXCEPT !.cache = CacheSet(@, c.req.content, "error", c.req.options,
                                    NoTTL, ProviderCacheTTL, t),
                 !.calls[id].retry = r,
                 !.calls[id].phase = r.pc,
                 !.calls[id].deadline =
                     IF r.pc = "sleeping"
                     THEN t + CeilDiv(r.delays[Len(r.delays)], MsPerTick)
                     ELSE @]

\* a failure whose retry awaits a token of its own
backendFailed_TakesToken(P, id, error, rnd, t) ==
    LET c == P.calls[id]
        r == retryCaught(c.retry, [wrapError(error) EXCEPT !.id = c.retry.invocations], rnd)
    IN [P EXCEPT !.rl = waitForTokenStart(@, TokenUnit, t).rl,
                 !.calls[id].retry = r,
                 !.calls[id].phase = r.pc,
                 !.calls[id].deadline =
                     IF r.pc = "sleeping"
                     THEN t + CeilDiv(r.delays[Len(r.delays)], MsPerTick)
                     ELSE @]

\* the backend invocation failed with error: callClaudeAPI rethrows it (wrapped)
\* into the catch block of withRetry
backendFailed(P, id, error, rnd, t) ==
    LET c == P.calls[id]
        r == retryCaught(c.retry, [wrapError(error) EXCEPT !.id = c.retry.invocations], rnd)
    IN [P EXCEPT !.calls[id].retry = r,
                 !.calls[id].phase = r.pc,
                 !.calls[id].deadline =
                     IF r.pc = "sleeping"
                     THEN t + CeilDiv(r.delays[Len(r.delays)], MsPerTick)
                     ELSE @]

\* x || d for a number x
OrElse(x, d) == IF x = 0 THEN d ELSE x

\* the value parseResponse returns for a parsed payload that passed the
\* validation (issues and suggestions are arrays, metrics is an object)
parsedResult(parsed) ==
    [issues |-> parsed.issues,
     suggestions |-> parsed.suggestions,
     metrics |-> [complexity |-> OrElse(parsed.metrics.complexity, 0),
                  maintainability |-> OrElse(parsed.metrics.maintainability, 100),
                  linesOfCode |-> OrElse(parsed.metrics.linesOfCode, 0),
                  duplicateLines |-> OrElse(parsed.metrics.duplicateLines, 0)]]

\* client.messages.create resolved with payload: parseResponse accepts it, or
\* throws into the catch blocks of callClaudeAPI and withRetry
backendAnswered(P, cfg, id, payload, value, t) ==
    LET p == parseResponse(payload) IN
    IF p.ok THEN backendOk(P, cfg, id, value, t)
    ELSE backendFailed(P, id, p.error, 0, t)

\* the timer of withRetry's delay fired
retryTimer(P, id) ==
    LET r == retryWake(P.calls[id].retry) IN
    [P EXCEPT !.calls[id].retry = r,
              !.calls[id].phase = r.pc,
              !.calls[id].deadline = 0]

\* the finally block of processQueue for the task of call id
finally(P, id, t) ==
    LET f == processQueueFinally(P.rq) IN
    startBody([P EXCEPT !.rq = f.rq, !.calls[id].phase = "done"], f.started, t)

\* clearCache(): this.cache.clear()
clearCache(P) ==
    [P EXCEPT !.cache = EmptyCache,
              !.calls = [i \in DOMAIN @ |-> [@[i] EXCEPT !.kept = FALSE]]]

\* destroy that leaves the request queue as it is
destroy_CacheOnly(P) == clearCache(P)

\* destroy(): clearInterval, this.cache.clear(), this.requestQueue.clear()
destroy(P) ==
    LET P1 == clearCache(P) IN
    [P1 EXCEPT !.rq = clear(@),
               !.calls = [i \in DOMAIN @ |->
                            IF @[i].phase = "pending"
                            THEN [@[i] EXCEPT !.phase = "dropped"] ELSE @[i]]]

\* the promise of analyze for a call has resolved, or rejected
CallResolved(c) == c.phase = "hit" \/ c.retry.pc = "resolved"
CallRejected(c) == c.phase = "threw" \/ c.retry.pc = "rejected"
CallError(c) == IF c.phase = "threw" THEN ErrCircular ELSE c.retry.thrown

NoBatch == [state |-> "none", items |-> <<>>, ids |-> <<>>]

\* analyzeBatch(items) entered: ids[k] is the analyze call made for items[k]
NewBatch(items, first) ==
    [state |-> "pending", items |-> items,
     ids |-> [k \in DOMAIN items |-> first + k - 1]]

\* Promise.all delivering the results in the opposite order
promiseAll_Reversed(b, C) ==
    IF b.state # "pending" THEN b
    ELSE IF \E k \in DOMAIN b.ids : CallRejected(C[b.ids[k]])
    THEN LET k == CHOOSE k \in DOMAIN b.ids : CallRejected(C[b.ids[k]])
         IN [b EXCEPT !.state = "rejected"] @@ [error |-> CallError(C[b.ids[k]])]
    ELSE IF \A k \in DOMAIN b.ids : CallResolved(C[b.ids[k]])
    THEN [b EXCEPT !.state = "resolved"]
            @@ [value |-> [k \in DOMAIN b.ids |-> C[b.ids[Len(b.ids) + 1 - k]].result]]
    ELSE b

\* Promise.all(promises) after a step that left the calls as C: it rejects
\* with the error of the first promise to reject, and resolves with the
\* results in the order of the promises once every promise has resolved
promiseAll(b, C) ==
    IF b.state # "pending" THEN b
    ELSE IF \E k \in DOMAIN b.ids : CallRejected(C[b.ids[k]])
    THEN LET k == CHOOSE k \in DOMAIN b.ids : CallRejected(C[b.ids[k]])
         IN [b EXCEPT !.state = "rejected"] @@ [error |-> CallError(C[b.ids[k]])]
    ELSE IF \A k \in DOMAIN b.ids : CallResolved(C[b.ids[k]])
    THEN [b EXCEPT !.state = "resolved"]
            @@ [value |-> [k \in DOMAIN b.ids |-> C[b.ids[k]].result]]
    ELSE b

(***************************************************************************)
(* SpecRetry: one withRetry call on an action that resolves or rejects as  *)
(* its environment decides.  withRetry never reads the clock: its timer is *)
(* a suspension that ends when the environment fires it.                   *)
(***************************************************************************)
MaxRetriesArg == 3

RetryOptionSamples ==
    {[maxRetries |-> m] : m \in 0..MaxRetriesArg}
      \cup {[baseDelay |-> 10, maxDelay |-> 30]}
      \cup {[baseDelay |-> 20, maxDelay |-> 30]}
      \cup {[maxRetries |-> 2, baseDelay |-> 100, backoffMultiplier |-> 3,
             retryableErrors |-> <<"authentication_error">>]}

RStart(options) ==
    /\ rt.pc = "idle"
    /\ rt' = retryStart(options)
    /\ lastOp' = [op |-> "withRetry"]

RFnResolves(value) ==
    /\ rt.pc = "calling"
    /\ rt' = retryResolved(rt, value)
    /\ lastOp' = [op |-> "fnResolved"]

RFnRejects(error, rnd) ==
    /\ rt.pc = "calling"
    /\ rt' = retryCaught(rt, [error EXCEPT !.id = rt.invocations], rnd)
    /\ lastOp' = [op |-> "fnRejected"]

RWake ==
    /\ rt.pc = "sleeping"
    /\ rt' = retryWake(rt)
    /\ lastOp' = [op |-> "retryTimer"]

InitRetry ==
    /\ now = 0
    /\ cache = EmptyCache
    /\ lastSet = NoSet
    /\ rt = RetryIdle
    /\ rl = NewRateLimiter(1, 1, 0)
    /\ waiters = NoWaiters
    /\ rq = NewRequestQueue(1)
    /\ tasks = NoTasks
    /\ startOrder = <<>>
    /\ prov = NoProvider
    /\ calls = NoCalls
    /\ lastOp = [op |-> "init"]
    /\ batch = NoBatch

NextRetry ==
    \/ \E o \in RetryOptionSamples : RStart(o) /\ UNCHANGED notRetry
    \/ \E v \in Values : RFnResolves(v) /\ UNCHANGED notRetry
    \/ \E e \in ErrorSamples, rnd \in Randoms : RFnRejects(e, rnd) /\ UNCHANGED notRetry
    \/ RWake /\ UNCHANGED notRetry

SpecRetry == InitRetry /\ [][NextRetry]_vars

(***************************************************************************)
(* Claims about withRetry                                                  *)
(***************************************************************************)
Last(q) == q[Len(q)]

AllRaisedRetryable ==
    \A i \in DOMAIN rt.raised : isRetryableError(rt.raised[i], rt.opts.retryableErrors)

\* C7: an action that fails with a retryable error on every attempt is invoked
\* exactly maxRetries + 1 times, and withRetry then rejects with the error the
\* last attempt raised.
C7_RetryExhaustion ==
    (rt.pc \in {"calling", "sleeping", "rejected"} /\ AllRaisedRetryable)
        => /\ rt.invocations <= rt.opts.maxRetries + 1
           /\ rt.pc = "rejected"
                => /\ rt.invocations = rt.opts.maxRetries + 1
                   /\ Len(rt.raised) = rt.opts.maxRetries + 1
                   /\ rt.thrown = Last(rt.raised)
                   /\ rt.thrown.id = rt.opts.maxRetries + 1

C7_Witness ==
    /\ rt.pc = "rejected"
    /\ AllRaisedRetryable
    /\ rt.opts.maxRetries = 3
    /\ rt.invocations = 4
    /\ rt.thrown = [ErrStatus503 EXCEPT !.id = 4]
    /\ rt.raised[1] = [ErrRateLimit EXCEPT !.id = 1]

\* C8: when an attempt raises an error the classifier rejects, withRetry
\* rejects with that error, without a delay and without another invocation;
\* when it is the first attempt, the action was invoked exactly once.
C8_FailFast ==
    (rt.pc # "idle" /\ rt.raised # <<>>
       /\ ~isRetryableError(Last(rt.raised), rt.opts.retryableErrors))
        => /\ rt.pc = "rejected"
           /\ rt.thrown = Last(rt.raised)
           /\ rt.invocations = Len(rt.raised)
           /\ Len(rt.delays) = Len(rt.raised) - 1
           /\ Len(rt.raised) = 1 => rt.invocations = 1

C8_Witness ==
    /\ rt.pc = "rejected"
    /\ rt.opts.maxRetries = 3
    /\ rt.raised = <<[ErrAuth EXCEPT !.id = 1]>>
    /\ rt.thrown = [ErrAuth EXCEPT !.id = 1]
    /\ rt.invocations = 1
    /\ rt.delays = <<>>

(***************************************************************************)
(* SpecLimiter: a RateLimiter driven by arbitrary calls.  Amounts are any  *)
(* number of units from one token up.                                      *)
(***************************************************************************)
MaxCapacity == 2
MaxRate == 2
MaxAmount == 2
MaxWaiters == 2

Amounts == TokenUnit..(MaxAmount * TokenUnit)
Waiters == 1..MaxWaiters

LTryConsume(n) ==
    LET r == tryConsume(rl, n, now) IN
    /\ rl' = r.rl
    /\ lastOp' = [op |-> "tryConsume", ok |-> r.ok, n |-> n]
    /\ UNCHANGED <<now, waiters>>

LWaitForToken(w, n) ==
    LET r == waitForTokenStart(rl, n, now) IN
    /\ waiters[w].pc = "idle"
    /\ rl' = r.rl
    /\ waiters' = [waiters EXCEPT ![w] =
                     IF r.granted THEN IdleWaiter
                     ELSE [pc |-> "waiting", n |-> n, deadline |-> now + r.waitTime]]
    /\ lastOp' = [op |-> "waitForToken", granted |-> r.granted]
    /\ UNCHANGED now

\* a waitForToken that, when its timer fires, checks the bucket again and keeps
\* waiting until it holds the amount
LWaitTimer_Poll(w) ==
    LET r == waitForTokenStart(rl, waiters[w].n, now) IN
    /\ waiters[w].pc = "waiting"
    /\ now >= waiters[w].deadline
    /\ rl' = r.rl
    /\ waiters' = IF r.granted THEN [waiters EXCEPT ![w] = IdleWaiter] ELSE waiters
    /\ lastOp' = [op |-> "waitForTokenResumed", granted |-> r.granted]
    /\ UNCHANGED now

LWaitTimer(w) ==
    /\ waiters[w].pc = "waiting"
    /\ now >= waiters[w].deadline
    /\ rl' = waitForTokenResume(rl)
    /\ waiters' = [waiters EXCEPT ![w] = IdleWaiter]
    /\ lastOp' = [op |-> "waitForTokenResumed", granted |-> TRUE]
    /\ UNCHANGED now

LGetTokens ==
    /\ rl' = getTokens(rl, now)
    /\ lastOp' = [op |-> "getTokens"]
    /\ UNCHANGED <<now, waiters>>

LReset ==
    /\ rl' = reset(rl, now)
    /\ lastOp' = [op |-> "reset"]
    /\ UNCHANGED <<now, waiters>>

InitLimiter ==
    /\ now = 0
    /\ cache = EmptyCache
    /\ lastSet = NoSet
    /\ rt = RetryIdle
    /\ \E m \in 1..MaxCapacity, r \in 1..MaxRate :
          rl = NewRateLimiter(m * TokenUnit, r, 0)
    /\ waiters = [w \in Waiters |-> IdleWaiter]
    /\ rq = NewRequestQueue(1)
    /\ tasks = NoTasks
    /\ startOrder = <<>>
    /\ prov = NoProvider
    /\ calls = NoCalls
    /\ lastOp = [op |-> "init"]
    /\ batch = NoBatch

NextLimiter ==
    \/ Tick /\ UNCHANGED <<limiterVars, notLimiter>>
    \/ \E n \in Amounts : LTryConsume(n) /\ UNCHANGED notLimiter
    \/ \E w \in Waiters, n \in Amounts : LWaitForToken(w, n) /\ UNCHANGED notLimiter
    \/ \E w \in Waiters : LWaitTimer(w) /\ UNCHANGED notLimiter
    \/ LGetTokens /\ UNCHANGED notLimiter
    \/ LReset /\ UNCHANGED notLimiter

SpecLimiter == InitLimiter /\ [][NextLimiter]_vars

\* C3: under any interleaving of tryConsume, waitForToken, getTokens and reset,
\* with any time elapsing between the calls, 0 <= tokens <= maxTokens.
C3_TokensInRange == 0 <= rl.tokens /\ rl.tokens <= rl.maxTokens

C3_Witness ==
    /\ lastOp.op = "waitForTokenResumed"
    /\ rl.tokens = 0
    /\ \E w \in Waiters : waiters[w].pc = "waiting"
    /\ now > rl.lastRefill
    /\ rl.maxTokens = MaxCapacity * TokenUnit

(***************************************************************************)
(* SpecQueue: a RequestQueue whose tasks complete as their environment     *)
(* decides.  A task is pending (in the queue), running (its body started), *)
(* resolved or rejected (its body completed and enqueue's promise settled; *)
(* the finally block of processQueue has not run yet), done (the finally   *)
(* block has run) or dropped (removed by clear()).                         *)
(***************************************************************************)
MaxTasks == 5
MaxConcurrentArg == 2

\* the tasks processQueue started become running
startTasks(t, started) ==
    [i \in DOMAIN t |-> IF \E j \in DOMAIN started : started[j] = i THEN "running" ELSE t[i]]

QEnqueue ==
    LET id == Cardinality(DOMAIN tasks) + 1
        r == enqueue(rq, id)
    IN /\ id <= MaxTasks
       /\ rq' = r.rq
       /\ tasks' = startTasks([i \in DOMAIN tasks \cup {id} |->
                                  IF i = id THEN "pending" ELSE tasks[i]], r.started)
       /\ startOrder' = startOrder \o r.started
       /\ lastOp' = [op |-> "enqueue", started |-> r.started]

QTaskCompletes(i, outcome) ==
    /\ i \in DOMAIN tasks
    /\ tasks[i] = "running"
    /\ tasks' = [tasks EXCEPT ![i] = settle(outcome)]
    /\ lastOp' = [op |-> "taskCompleted", task |-> i, outcome |-> outcome]
    /\ UNCHANGED <<rq, startOrder>>

QFinally(i) ==
    LET r == processQueueFinally(rq) IN
    /\ i \in DOMAIN tasks
    /\ tasks[i] \in {"resolved", "rejected"}
    /\ rq' = r.rq
    /\ tasks' = startTasks([tasks EXCEPT ![i] = "done"], r.started)
    /\ startOrder' = startOrder \o r.started
    /\ lastOp' = [op |-> "finally", started |-> r.started, after |-> tasks[i]]

QClear ==
    /\ rq' = clear(rq)
    /\ tasks' = [i \in DOMAIN tasks |-> IF tasks[i] = "pending" THEN "dropped" ELSE tasks[i]]
    /\ lastOp' = [op |-> "clear"]
    /\ UNCHANGED startOrder

InitQueue ==
    /\ now = 0
    /\ cache = EmptyCache
    /\ lastSet = NoSet
    /\ rt = RetryIdle
    /\ rl = NewRateLimiter(1, 1, 0)
    /\ waiters = NoWaiters
    /\ \E k \in 1..MaxConcurrentArg : rq = NewRequestQueue(k)
    /\ tasks = NoTasks
    /\ startOrder = <<>>
    /\ prov = NoProvider
    /\ calls = NoCalls
    /\ lastOp = [op |-> "init"]
    /\ batch = NoBatch

NextQueue ==
    \/ QEnqueue /\ UNCHANGED notQueue
    \/ \E i \in 1..MaxTasks, o \in {"resolved", "rejected"} :
          QTaskCompletes(i, o) /\ UNCHANGED notQueue
    \/ \E i \in 1..MaxTasks : QFinally(i) /\ UNCHANGED notQueue
    \/ QClear /\ UNCHANGED notQueue

SpecQueue == InitQueue /\ [][NextQueue]_vars

Running == {i \in DOMAIN tasks : tasks[i] = "running"}

\* C1: under any interleaving of enqueue, task completions and clear(), the
\* number of tasks started and not yet completed, and the processing counter,
\* are at most maxConcurrent.
C1_ConcurrencyCeiling ==
    /\ rq.processing <= rq.maxConcurrent
    /\ Cardinality(Running) <= rq.maxConcurrent

C1_Witness ==
    /\ rq.maxConcurrent = 2
    /\ rq.processing = 2
    /\ Cardinality(Running) = 2
    /\ Len(rq.queue) >= 1
    /\ \E i \in DOMAIN tasks : tasks[i] = "done"
    /\ \E i \in DOMAIN tasks : tasks[i] = "dropped"

\* C2: tasks are started in the order they were enqueued (a task's number is
\* its arrival number), in whatever order running tasks complete.
C2_FifoAdmission ==
    \A i, j \in DOMAIN startOrder : i < j => startOrder[i] < startOrder[j]

C2_Witness ==
    /\ Len(startOrder) >= 3
    /\ tasks[1] = "running"
    /\ tasks[2] = "done"
    /\ tasks[3] = "running"

(***************************************************************************)
(* SpecCache: a ResponseCache driven by arbitrary calls                    *)
(***************************************************************************)
CSet(content, value, options, ttl) ==
    /\ \/ generateKey(content, options) \in DOMAIN cache
       \/ Cardinality(DOMAIN cache) < MaxEntries
    /\ cache' = CacheSet(cache, content, value, options, ttl, DefaultTTL, now)
    /\ lastSet' = [done |-> TRUE, content |-> content, value |-> value,
                   options |-> options, ttl |-> ttl, at |-> now]
    /\ lastOp' = [op |-> "set"]
    /\ UNCHANGED now

CGet(content, options) ==
    LET r == CacheGet(cache, content, options, now) IN
    /\ cache' = r.cache
    /\ lastOp' = [op |-> "get"]
    /\ UNCHANGED <<now, lastSet>>

CHas(content, options) ==
    LET r == CacheHas(cache, content, options, now) IN
    /\ cache' = r.cache
    /\ lastOp' = [op |-> "has"]
    /\ UNCHANGED <<now, lastSet>>

CCleanup ==
    /\ cache' = CacheCleanup(cache, now)
    /\ lastOp' = [op |-> "cleanup", removed |-> DOMAIN cache \ DOMAIN cache']
    /\ UNCHANGED <<now, lastSet>>

CClear ==
    /\ cache' = EmptyCache
    /\ lastSet' = NoSet
    /\ lastOp' = [op |-> "clear"]
    /\ UNCHANGED now

InitCache ==
    /\ now = 0
    /\ cache = EmptyCache
    /\ lastSet = NoSet
    /\ rt = RetryIdle
    /\ rl = NewRateLimiter(1, 1, 0)
    /\ waiters = NoWaiters
    /\ rq = NewRequestQueue(1)
    /\ tasks = NoTasks
    /\ startOrder = <<>>
    /\ prov = NoProvider
    /\ calls = NoCalls
    /\ lastOp = [op |-> "init"]
    /\ batch = NoBatch

NextCache ==
    \/ Tick /\ UNCHANGED <<cacheVars, notCache>>
    \/ \E c \in Contents, v \in Values, o \in OptionSamples, ttl \in TTLArgs : CSet(c, v, o, ttl) /\ UNCHANGED notCache
    \/ \E c \in Contents, o \in OptionSamples : CGet(c, o) /\ UNCHANGED notCache
    \/ \E c \in Contents, o \in OptionSamples : CHas(c, o) /\ UNCHANGED notCache
    \/ CCleanup /\ UNCHANGED notCache
    \/ CClear /\ UNCHANGED notCache

SpecCache == InitCache /\ [][NextCache]_vars

(***************************************************************************)
(* Claims about the ResponseCache                                          *)
(***************************************************************************)
\* the same keys with the same values, in any insertion order
SameEntries(o1, o2) ==
    /\ o1.present = o2.present
    /\ {o1.kv[i] : i \in DOMAIN o1.kv} = {o2.kv[i] : i \in DOMAIN o2.kv}

\* C9 (as claimed): after set(c, v, o) and before the entry expires, get(c, o')
\* returns v for every o' with the same keys and values as o, whatever the
\* insertion order of the keys.
C9_GetAfterSetAnyKeyOrder ==
    (lastSet.done /\ now - lastSet.at <= effectiveTTL(lastSet.ttl, DefaultTTL))
        => \A o \in OptionSamples :
              SameEntries(o, lastSet.options)
                  => CacheGet(cache, lastSet.content, o, now).value = lastSet.value

\* C10 (as claimed): once more than t ms have elapsed since set(content, value,
\* options, t), get and has for that key are a miss, for every t passed to set.
C10_MissAfterTTL ==
    (lastSet.done /\ lastSet.ttl.given /\ now - lastSet.at > lastSet.ttl.t)
        => /\ CacheGet(cache, lastSet.content, lastSet.options, now).value = Null
           /\ ~CacheHas(cache, lastSet.content, lastSet.options, now).value

(***************************************************************************)
(* Spec: a ClaudeProvider driven by arbitrary calls, against a backend     *)
(* that answers each invocation or fails it, at most MaxFailures times.    *)
(* The caller issues at most MaxCalls analyses and at most MaxAdminCalls    *)
(* calls of getStats, clearCache, resetRateLimiter and destroy.             *)
(***************************************************************************)
MaxCalls == 3
MaxFailures == 1
MaxAdminCalls == 2

Req(content, kv) == [content |-> content, options |-> [present |-> TRUE, kv |-> kv]]

\* the same content with the same options, the keys inserted in either order
Requests ==
    {Req(<<"x">>, <<<<"language", "a">>, <<"rules", "a">>>>),
     Req(<<"x">>, <<<<"rules", "a">>, <<"language", "a">>>>)}

Batches == {<<a, b>> : a \in Requests, b \in Requests}

\* the backend's answer to the invocations of call i
ResultOf(i) == <<"r1", "r2", "r3", "r4", "r5", "r6">>[i]

ErrAuth401 == APIErr(401, <<"invalid", "x-api-key">>, <<"authentication_error">>)
\* a 429 of the backend whose message names none of the retryable error types
ErrTooMany429 == APIErr(429, <<"Too", "Many", "Requests">>, <<>>)
BackendErrors == {ErrConnReset, ErrAuth401, ErrTooMany429}

Failures ==
    LET RECURSIVE Sum(_)
        Sum(S) == IF S = {} THEN 0
                  ELSE LET i == CHOOSE x \in S : TRUE
                       IN (IF calls[i].retry.pc = "idle" THEN 0
                           ELSE Len(calls[i].retry.raised)) + Sum(S \ {i})
    IN Sum(DOMAIN calls)

PState == [cache |-> cache, rl |-> rl, rq |-> rq, calls |-> calls]

\* the provider after an operation that left it in state P
Becomes(P) ==
    /\ cache' = P.cache
    /\ rl' = P.rl
    /\ rq' = P.rq
    /\ calls' = P.calls

PAnalyze(req) ==
    /\ Cardinality(DOMAIN calls) < MaxCalls
    /\ Becomes(analyze(PState, prov, req, now))
    /\ UNCHANGED <<now, prov>>

PAnalyzeBatch(items) ==
    /\ Cardinality(DOMAIN calls) + Len(items) <= MaxCalls
    /\ Becomes(analyzeBatch(PState, prov, items, now))
    /\ UNCHANGED <<now, prov>>

PTokenTimer(i) ==
    /\ i \in DOMAIN calls
    /\ calls[i].phase = "waiting"
    /\ now >= calls[i].deadline
    /\ Becomes(tokenTimer(PState, i))
    /\ UNCHANGED <<now, prov>>

PInvoke(i) ==
    /\ i \in DOMAIN calls
    /\ calls[i].phase = "granted"
    /\ Becomes(invoke(PState, i))
    /\ UNCHANGED <<now, prov>>

PBackendOk(i) ==
    /\ i \in DOMAIN calls
    /\ calls[i].phase = "calling"
    /\ Becomes(backendOk(PState, prov, i, ResultOf(i), now))
    /\ UNCHANGED <<now, prov>>

PBackendFails(i, error, rnd) ==
    /\ i \in DOMAIN calls
    /\ calls[i].phase = "calling"
    /\ Failures < MaxFailures
    /\ Becomes(backendFailed(PState, i, error, rnd, now))
    /\ UNCHANGED <<now, prov>>

PRetryTimer(i) ==
    /\ i \in DOMAIN calls
    /\ calls[i].phase = "sleeping"
    /\ now >= calls[i].deadline
    /\ Becomes(retryTimer(PState, i))
    /\ UNCHANGED <<now, prov>>

PFinally(i) ==
    /\ i \in DOMAIN calls
    /\ calls[i].phase \in {"resolved", "rejected"}
    /\ Becomes(finally(PState, i, now))
    /\ UNCHANGED <<now, prov>>

\* getStats(): rateLimiter.getTokens() refills the bucket
PGetStats ==
    /\ prov.adminCalls < MaxAdminCalls
    /\ Becomes([PState EXCEPT !.rl = getTokens(@, now)])
    /\ prov' = [prov EXCEPT !.adminCalls = @ + 1]
    /\ UNCHANGED now

PClearCache ==
    /\ prov.adminCalls < MaxAdminCalls
    /\ Becomes(clearCache(PState))
    /\ prov' = [prov EXCEPT !.cleared = TRUE, !.adminCalls = @ + 1]
    /\ UNCHANGED now

PResetRateLimiter ==
    /\ prov.adminCalls < MaxAdminCalls
    /\ Becomes([PState EXCEPT !.rl = reset(@, now)])
    /\ prov' = [prov EXCEPT !.adminCalls = @ + 1]
    /\ UNCHANGED now

PDestroy ==
    /\ prov.adminCalls < MaxAdminCalls
    /\ Becomes(destroy(PState))
    /\ prov' = [prov EXCEPT !.cleanupInterval = FALSE, !.cleared = TRUE,
                            !.adminCalls = @ + 1]
    /\ UNCHANGED now

\* the interval timer of startAutoCleanup
PCleanupTimer ==
    /\ prov.cleanupInterval
    /\ Becomes([PState EXCEPT !.cache = CacheCleanup(@, now)])
    /\ UNCHANGED <<now, prov>>

PTick ==
    /\ now < MaxTime
    /\ now' = now + 1
    /\ UNCHANGED <<cache, rl, rq, calls, prov>>

Init ==
    /\ now = 0
    /\ cache = EmptyCache
    /\ lastSet = NoSet
    /\ rt = RetryIdle
    /\ rl = NewRateLimiter(ProviderRateLimitTokens, ProviderRefillRate, 0)
    /\ waiters = NoWaiters
    /\ rq = NewRequestQueue(ProviderMaxConcurrency)
    /\ tasks = NoTasks
    /\ startOrder = <<>>
    /\ prov = NewProvider(ProviderEnableCache)
    /\ calls = NoCalls
    /\ lastOp = [op |-> "init"]
    /\ batch = NoBatch

Next ==
    \/ \E r \in Requests : PAnalyze(r) /\ UNCHANGED notProvider
    \/ \E b \in Batches : PAnalyzeBatch(b) /\ UNCHANGED notProvider
    \/ \E i \in 1..MaxCalls : PTokenTimer(i) /\ UNCHANGED notProvider
    \/ \E i \in 1..MaxCalls : PInvoke(i) /\ UNCHANGED notProvider
    \/ \E i \in 1..MaxCalls : PBackendOk(i) /\ UNCHANGED notProvider
    \/ \E i \in 1..MaxCalls, e \in BackendErrors, rnd \in {0, RandomDen - 1} :
          PBackendFails(i, e, rnd) /\ UNCHANGED notProvider
    \/ \E i \in 1..MaxCalls : PRetryTimer(i) /\ UNCHANGED notProvider
    \/ \E i \in 1..MaxCalls : PFinally(i) /\ UNCHANGED notProvider
    \/ PGetStats /\ UNCHANGED notProvider
    \/ PClearCache /\ UNCHANGED notProvider
    \/ PResetRateLimiter /\ UNCHANGED notProvider
    \/ PDestroy /\ UNCHANGED notProvider
    \/ PCleanupTimer /\ UNCHANGED notProvider
    \/ PTick /\ UNCHANGED notProvider

Spec == Init /\ [][Next]_vars

(***************************************************************************)
(* Claims about the ClaudeProvider                                         *)
(***************************************************************************)
\* the calls the step issues
NewCalls == DOMAIN calls' \ DOMAIN calls

\* the cache holds an unexpired entry for the request
Cached(req) ==
    prov.enableCache /\ CacheGet(cache, req.content, req.options, now).value # Null

\* C4: an analyze call that finds an unexpired cache entry returns the cached
\* value; when every call the step issues does, nothing else changes: the queue,
\* the processing counter, the rate limiter, the cache and every other call
\* (so no backend invocation is started) are as before.
C4_CacheHitChangesNothing ==
    [][/\ \A j \in NewCalls :
             Cached(calls'[j].req)
                 => /\ calls'[j].phase = "hit"
                    /\ calls'[j].result =
                          CacheGet(cache, calls'[j].req.content, calls'[j].req.options, now).value
                    /\ calls'[j].retry = RetryIdle
       /\ (NewCalls # {} /\ \A j \in NewCalls : Cached(calls'[j].req))
             => /\ rq' = rq
                /\ rl' = rl
                /\ cache' = cache
                /\ \A i \in DOMAIN calls : calls'[i] = calls[i]]_vars

C4_Witness ==
    \E i, j \in DOMAIN calls :
        /\ i < j
        /\ calls[i].phase = "done"
        /\ calls[j].phase = "hit"
        /\ calls[j].result = calls[i].result
        /\ \E h \in DOMAIN calls : calls[h].phase = "calling"

\* the call has invoked the backend (so it was given a queue slot and a token)
Invoked(i) == calls[i].retry.pc # "idle"

\* C5: with caching enabled, a succeeding backend, everything within
\* the TTL and the cache never cleared, at most one of the calls with the same
\* (content, options) occupies a slot, takes a token and invokes the backend.
C5_AtMostOneIdenticalCallInvokes ==
    (prov.enableCache /\ ~prov.cleared /\ now <= ProviderCacheTTL /\ Failures = 0)
        => \A i, j \in DOMAIN calls :
              (i # j /\ calls[i].req = calls[j].req) => ~(Invoked(i) /\ Invoked(j))

Outstanding == {i \in DOMAIN calls : calls[i].phase = "calling"}

\* C6: the number of backend invocations outstanding at the same time never
\* exceeds maxConcurrency, also while other calls wait for a token or sleep
\* between retry attempts.
C6_BackendConcurrency == Cardinality(Outstanding) <= rq.maxConcurrent

C6_Witness ==
    /\ Cardinality(DOMAIN calls) > rq.maxConcurrent
    /\ \E i, j, h \in DOMAIN calls :
          /\ calls[i].phase = "calling"
          /\ calls[j].phase = "sleeping"
          /\ calls[h].phase = "pending"

\* the status callClaudeAPI wrote into the message of the error it threw
\* instead of the backend's APIError ("" when the error is not a wrapped one)
BackendStatus(e) ==
    IF Len(e.message) >= 6 /\ SubSeq(e.message, 1, 4) = <<"Claude", "API", "Error", "(">>
    THEN e.message[5]
    ELSE ""

\* C11: an analyze call whose backend invocation fails with status 429, 500 or
\* 503 is retried: it is not rejected before maxRetries + 1 invocations.
C11_BackendStatusRetried ==
    \A i \in DOMAIN calls :
        (/\ calls[i].retry.pc = "rejected"
         /\ BackendStatus(calls[i].retry.thrown) \in {"429", "500", "503"})
            => calls[i].retry.invocations = calls[i].retry.opts.maxRetries + 1

(***************************************************************************)
(* SpecBatch: one analyzeBatch call on a new provider, over more items     *)
(* than maxConcurrency.  Each step that settles a call is followed, in the *)
(* same segment, by the reaction of Promise.all.                           *)
(***************************************************************************)
BatchLen == 3

BatchItems == [1..BatchLen -> Requests]

\* Promise.all reacts to the calls the step leaves
BatchSettles == batch' = promiseAll(batch, calls')

BAnalyzeBatch(items) ==
    /\ batch.state = "none"
    /\ Becomes(analyzeBatch(PState, prov, items, now))
    /\ batch' = promiseAll(NewBatch(items, Cardinality(DOMAIN calls) + 1), calls')
    /\ UNCHANGED <<now, prov>>

\* the clock advances, as long as the bound allows or a timer is still to fire
BTick ==
    /\ \/ now < MaxTime
       \/ \E i \in DOMAIN calls : calls[i].deadline > now
    /\ now' = now + 1
    /\ UNCHANGED <<cache, rl, rq, calls, prov, batch>>

InitBatch == Init

NextBatch ==
    \/ \E b \in BatchItems : BAnalyzeBatch(b) /\ UNCHANGED notBatch
    \/ \E i \in 1..BatchLen : PTokenTimer(i) /\ BatchSettles /\ UNCHANGED notBatch
    \/ \E i \in 1..BatchLen : PInvoke(i) /\ BatchSettles /\ UNCHANGED notBatch
    \/ \E i \in 1..BatchLen : PBackendOk(i) /\ BatchSettles /\ UNCHANGED notBatch
    \/ \E i \in 1..BatchLen, e \in BackendErrors, rnd \in {0, RandomDen - 1} :
          PBackendFails(i, e, rnd) /\ BatchSettles /\ UNCHANGED notBatch
    \/ \E i \in 1..BatchLen : PRetryTimer(i) /\ BatchSettles /\ UNCHANGED notBatch
    \/ \E i \in 1..BatchLen : PFinally(i) /\ BatchSettles /\ UNCHANGED notBatch
    \/ BTick /\ UNCHANGED notBatch

SpecBatch == InitBatch /\ [][NextBatch]_vars

\* the outcome of item k is in what the caller of analyzeBatch receives
Received(k) ==
    LET c == calls[batch.ids[k]] IN
    \/ batch.state = "resolved" /\ CallResolved(c) /\ batch.value[k] = c.result
    \/ batch.state = "rejected" /\ CallRejected(c) /\ batch.error = CallError(c)

\* C12: analyzeBatch settles its items independently: once its promise has
\* settled, the caller has received the outcome (result or error) of every item.
C12_BatchDeliversEveryOutcome ==
    batch.state \in {"resolved", "rejected"}
        => \A k \in DOMAIN batch.ids : Received(k)

\* C13: when every item succeeds, analyzeBatch resolves with as many results as
\* items, element k being the result of the analyze call made for items[k], in
\* whatever order the analyses complete.
C13_BatchPositional ==
    batch.state = "resolved"
        => /\ Len(batch.value) = Len(batch.items)
           /\ \A k \in DOMAIN batch.items :
                 /\ calls[batch.ids[k]].req = batch.items[k]
                 /\ batch.value[k] = calls[batch.ids[k]].result
                 /\ batch.value[k] = ResultOf(batch.ids[k])

\* the analysis of a later item completed before that of an earlier one
C13_Witness ==
    /\ batch.state = "resolved"
    /\ Len(batch.value) = BatchLen
    /\ calls[1].resolvedAt > calls[BatchLen].resolvedAt

(***************************************************************************)
(* SpecBatchLive: the analyzeBatch call of SpecBatch against a backend     *)
(* that answers every invocation successfully.  Timers fire, suspended     *)
(* code is resumed, the clock advances and the backend answers: each step  *)
(* that stays possible is eventually taken.                                *)
(***************************************************************************)
StepTokenTimer(i) == PTokenTimer(i) /\ BatchSettles /\ UNCHANGED notBatch
StepInvoke(i) == PInvoke(i) /\ BatchSettles /\ UNCHANGED notBatch
StepBackendOk(i) == PBackendOk(i) /\ BatchSettles /\ UNCHANGED notBatch
StepFinally(i) == PFinally(i) /\ BatchSettles /\ UNCHANGED notBatch
StepTick == BTick /\ UNCHANGED notBatch

NextBatchLive ==
    \/ \E b \in BatchItems : BAnalyzeBatch(b) /\ UNCHANGED notBatch
    \/ \E i \in 1..BatchLen : StepTokenTimer(i)
    \/ \E i \in 1..BatchLen : StepInvoke(i)
    \/ \E i \in 1..BatchLen : StepBackendOk(i)
    \/ \E i \in 1..BatchLen : StepFinally(i)
    \/ StepTick

SpecBatchLive ==
    /\ InitBatch
    /\ [][NextBatchLive]_vars
    /\ \A i \in 1..BatchLen :
          /\ WF_vars(StepTokenTimer(i))
          /\ WF_vars(StepInvoke(i))
          /\ WF_vars(StepBackendOk(i))
          /\ WF_vars(StepFinally(i))
    /\ WF_vars(StepTick)

\* C14: analyzeBatch over more items than maxConcurrency, against a backend
\* that answers every invocation successfully, eventually resolves with the
\* results of all its items.
C14_BatchCompletes ==
    (batch.state = "pending")
        ~> (batch.state = "resolved" /\ Len(batch.value) = BatchLen)

C14_Witness ==
    /\ batch.state = "resolved"
    /\ Len(batch.value) = BatchLen
    /\ BatchLen > rq.maxConcurrent
    /\ \A i \in DOMAIN calls : calls[i].phase = "done"
    /\ rq.processing = 0

(***************************************************************************)
(* Claims about waitForToken                                               *)
(***************************************************************************)
\* the tokens in the bucket at time t: min(maxTokens, tokens + elapsed x refillRate)
Available(r, t) == Min(r.maxTokens, r.tokens + (t - r.lastRefill) * r.refillRate)

\* C15: waitForToken(n), for an amount n the bucket can hold, returns only at
\* a moment when at least n tokens are in the bucket, and it consumes those n
\* tokens: right after its return the bucket holds n tokens less than right
\* before.
C15_WaitConsumesWhatItWaitedFor ==
    [][\A w \in Waiters :
          (/\ waiters[w].pc = "waiting"
           /\ waiters'[w].pc = "idle"
           /\ waiters[w].n <= rl.maxTokens)
              => /\ Available(rl, now) >= waiters[w].n
                 /\ Available(rl', now') = Available(rl, now) - waiters[w].n]_vars

(***************************************************************************)
(* SpecLimiterLive: the RateLimiter of SpecLimiter with timers that fire   *)
(* and a clock that advances.  Calls of waitForToken are made up to time   *)
(* MaxTime; the clock runs on until every timer set by then has fired.     *)
(***************************************************************************)
LTick ==
    /\ \/ now < MaxTime
       \/ \E w \in Waiters : waiters[w].pc = "waiting" /\ waiters[w].deadline > now
    /\ now' = now + 1
    /\ lastOp' = [op |-> "tick"]
    /\ UNCHANGED limiterVars

StepLTick == LTick /\ UNCHANGED notLimiter
StepLWaitTimer(w) == LWaitTimer(w) /\ UNCHANGED notLimiter

NextLimiterLive ==
    \/ StepLTick
    \/ \E n \in Amounts : LTryConsume(n) /\ UNCHANGED notLimiter
    \/ \E w \in Waiters, n \in Amounts :
          now <= MaxTime /\ LWaitForToken(w, n) /\ UNCHANGED notLimiter
    \/ \E w \in Waiters : StepLWaitTimer(w)
    \/ LGetTokens /\ UNCHANGED notLimiter
    \/ LReset /\ UNCHANGED notLimiter

SpecLimiterLive ==
    /\ InitLimiter
    /\ [][NextLimiterLive]_vars
    /\ WF_vars(StepLTick)
    /\ \A w \in Waiters : WF_vars(StepLWaitTimer(w))

\* C16: every waitForToken(n) call eventually returns, whatever the amount, the
\* refill rate, the bucket's state and the other callers waiting.
C16_WaitEventuallyGrants ==
    \A w \in Waiters : (waiters[w].pc = "waiting") ~> (waiters[w].pc = "idle")

C16_Witness ==
    /\ lastOp.op = "waitForTokenResumed"
    /\ \E w \in Waiters : waiters[w].pc = "waiting" /\ waiters[w].n > rl.maxTokens

(***************************************************************************)
(* Claims about tryConsume and refill                                      *)
(***************************************************************************)
\* C17: tryConsume(n) returns at once; when it returns false the bucket holds
\* the lazily refilled count min(maxTokens, tokens + elapsed x refillRate) and
\* nothing else changed; when it returns true the bucket holds that count
\* less n.
C17_TryConsumeFrame ==
    [][lastOp'.op = "tryConsume"
          => /\ lastOp'.ok = (Available(rl, now) >= lastOp'.n)
             /\ rl'.tokens = IF lastOp'.ok
                             THEN Available(rl, now) - lastOp'.n
                             ELSE Available(rl, now)
             /\ rl'.lastRefill = now
             /\ rl'.maxTokens = rl.maxTokens
             /\ rl'.refillRate = rl.refillRate
             /\ UNCHANGED <<now, waiters>>]_vars

\* tryConsume returned false on a bucket that held tokens, the clamp having
\* cut the refill
C17_Witness ==
    /\ lastOp.op = "tryConsume"
    /\ ~lastOp.ok
    /\ rl.tokens > 0
    /\ rl.tokens = rl.maxTokens
    /\ lastOp.n > rl.maxTokens
    /\ now > 0

(***************************************************************************)
(* SpecRefill: a RateLimiter read by getTokens at any moments.  lastOp     *)
(* keeps the reading an interval without consumption starts from (the      *)
(* bucket at time at held tokens, as left by the constructor or by the     *)
(* latest tryConsume), the latest reading (reported at time seenAt) and    *)
(* the number of readings since, counted up to MaxReads.                   *)
(***************************************************************************)
MaxReads == 2

Reading(r, t) ==
    [op |-> "reading", at |-> t, tokens |-> r.tokens,
     seenAt |-> t, reported |-> r.tokens, reads |-> 0]

RTick ==
    /\ now < MaxTime
    /\ now' = now + 1
    /\ UNCHANGED <<rl, lastOp>>

RGetTokens ==
    /\ rl' = getTokens(rl, now)
    /\ lastOp' = [lastOp EXCEPT !.seenAt = now, !.reported = rl'.tokens,
                                !.reads = Min(@ + 1, MaxReads)]
    /\ UNCHANGED now

RTryConsume(n) ==
    /\ rl' = tryConsume(rl, n, now).rl
    /\ lastOp' = Reading(rl', now)
    /\ UNCHANGED now

InitRefill ==
    /\ now = 0
    /\ cache = EmptyCache
    /\ lastSet = NoSet
    /\ rt = RetryIdle
    /\ \E m \in 1..MaxCapacity, r \in 1..MaxRate :
          rl = NewRateLimiter(m * TokenUnit, r, 0)
    /\ waiters = NoWaiters
    /\ rq = NewRequestQueue(1)
    /\ tasks = NoTasks
    /\ startOrder = <<>>
    /\ prov = NoProvider
    /\ calls = NoCalls
    /\ lastOp = Reading(rl, 0)
    /\ batch = NoBatch

notRefill == <<cache, lastSet, rt, waiters, rq, tasks, startOrder, prov, calls, batch>>

NextRefill ==
    \/ RTick /\ UNCHANGED notRefill
    \/ RGetTokens /\ UNCHANGED notRefill
    \/ \E n \in Amounts : RTryConsume(n) /\ UNCHANGED notRefill

SpecRefill == InitRefill /\ [][NextRefill]_vars

\* C18: after d seconds without consumption getTokens reports
\* min(maxTokens, previous + d x refillRate), however many getTokens calls were
\* made in between; over 1 / refillRate seconds that is one token more, up to
\* maxTokens.
C18_RefillCorrect ==
    /\ lastOp.reported =
          Min(rl.maxTokens, lastOp.tokens + (lastOp.seenAt - lastOp.at) * rl.refillRate)
    /\ ((lastOp.seenAt - lastOp.at) * rl.refillRate = TokenUnit)
          => lastOp.reported = Min(rl.maxTokens, lastOp.tokens + TokenUnit)

\* one token was refilled over two readings, below the cap
C18_Witness ==
    /\ lastOp.reads = 2
    /\ (lastOp.seenAt - lastOp.at) * rl.refillRate = TokenUnit
    /\ lastOp.seenAt - lastOp.at = 2
    /\ lastOp.reported = lastOp.tokens + TokenUnit
    /\ lastOp.reported <= rl.maxTokens

(***************************************************************************)
(* SpecFault: analyze calls on a provider with caching enabled and a       *)
(* succeeding backend, some of them with options JSON.stringify cannot     *)
(* serialise.                                                              *)
(***************************************************************************)
ReqCircular == Req(<<"x">>, <<<<"language", "a">>, <<"rules", Circular>>>>)

FaultRequests == Requests \cup {ReqCircular}

InitFault == Init

NextFault ==
    \/ \E r \in FaultRequests : PAnalyze(r) /\ UNCHANGED notProvider
    \/ \E i \in 1..MaxCalls : PTokenTimer(i) /\ UNCHANGED notProvider
    \/ \E i \in 1..MaxCalls : PInvoke(i) /\ UNCHANGED notProvider
    \/ \E i \in 1..MaxCalls : PBackendOk(i) /\ UNCHANGED notProvider
    \/ \E i \in 1..MaxCalls : PFinally(i) /\ UNCHANGED notProvider
    \/ PTick /\ UNCHANGED notProvider

SpecFault == InitFault /\ [][NextFault]_vars

\* C19: a fault of the cache layer is never the error analyze rejects with: the
\* call goes on to the backend as after a miss.
C19_CacheFaultIsAMiss ==
    \A i \in DOMAIN calls : calls[i].phase # "threw"

(***************************************************************************)
(* Claims about failing tasks of the RequestQueue                          *)
(***************************************************************************)
\* C20: a failing task affects only its own caller: its promise rejects, no
\* other task's state and nothing of the queue changes, running siblings keep
\* running; its finally block frees the slot and starts the next pending task.
C20_FailureIsolated ==
    [][/\ (lastOp'.op = "taskCompleted" /\ lastOp'.outcome = "rejected")
             => /\ tasks'[lastOp'.task] = "rejected"
                /\ \A j \in DOMAIN tasks \ {lastOp'.task} : tasks'[j] = tasks[j]
                /\ rq' = rq
       /\ \A i \in DOMAIN tasks :
             (tasks[i] = "rejected" /\ tasks'[i] = "done")
                 => /\ \A j \in DOMAIN tasks \ {i} :
                          tasks[j] # "pending" => tasks'[j] = tasks[j]
                    /\ IF rq.queue # <<>>
                       THEN /\ tasks'[Head(rq.queue)] = "running"
                            /\ rq'.queue = Tail(rq.queue)
                            /\ rq'.processing = rq.processing
                       ELSE rq'.processing = rq.processing - 1]_vars

C20_Witness ==
    /\ lastOp.op = "finally"
    /\ lastOp.after = "rejected"
    /\ lastOp.started # <<>>
    /\ Cardinality(Running) = 2
    /\ rq.queue # <<>>

(***************************************************************************)
(* Claims about RequestQueue.clear                                         *)
(***************************************************************************)
\* C21: clear() removes every task not yet started (the queue is empty and a
\* dropped task is never started) and leaves the tasks in flight untouched:
\* processing is unchanged and every task that was not pending is as before.
C21_ClearDropsPendingOnly ==
    [][/\ lastOp'.op = "clear"
             => /\ rq'.queue = <<>>
                /\ getStats(rq').queued = 0
                /\ rq'.processing = rq.processing
                /\ rq'.maxConcurrent = rq.maxConcurrent
                /\ \A i \in DOMAIN tasks :
                      tasks'[i] = IF tasks[i] = "pending" THEN "dropped" ELSE tasks[i]
       /\ \A i \in DOMAIN tasks :
             tasks[i] = "dropped"
                 => /\ tasks'[i] = "dropped"
                    /\ \A n \in DOMAIN startOrder' : startOrder'[n] # i]_vars

\* after clear() dropped a task, a task that was in flight completed and its
\* finally block ran
C21_Witness ==
    /\ lastOp.op = "finally"
    /\ lastOp.started = <<>>
    /\ \E i \in DOMAIN tasks : tasks[i] = "dropped"
    /\ \E i \in DOMAIN tasks : tasks[i] = "running"
    /\ rq.processing = 1
    /\ rq.maxConcurrent = 2

(***************************************************************************)
(* SpecDestroy: analyze calls against a succeeding backend on a provider   *)
(* that is destroyed, once or twice, at any moment.  lastOp names the      *)
(* operation of the latest step.                                           *)
(***************************************************************************)
notDestroy == <<lastSet, rt, waiters, tasks, startOrder, batch>>

Did(op) == lastOp' = [op |-> op] /\ UNCHANGED notDestroy

InitDestroy == Init

NextDestroy ==
    \/ \E r \in Requests : PAnalyze(r) /\ Did("analyze")
    \/ \E i \in 1..MaxCalls : PTokenTimer(i) /\ Did("tokenTimer")
    \/ \E i \in 1..MaxCalls : PInvoke(i) /\ Did("invoke")
    \/ \E i \in 1..MaxCalls : PBackendOk(i) /\ Did("backendOk")
    \/ \E i \in 1..MaxCalls : PFinally(i) /\ Did("finally")
    \/ PDestroy /\ Did("destroy")
    \/ PCleanupTimer /\ Did("cleanup")
    \/ PTick /\ Did("tick")

SpecDestroy == InitDestroy /\ [][NextDestroy]_vars

\* C22: destroy() stops the periodic sweep and drops the queued work, the
\* calls in flight staying as they are; a second destroy(), whenever it is made,
\* leaves the provider destroyed, and made right after the first one it changes
\* nothing.
C22_DestroyIdempotent ==
    [][lastOp'.op = "destroy"
          => /\ ~prov'.cleanupInterval
             /\ rq'.queue = <<>>
             /\ rq'.processing = rq.processing
             /\ cache' = EmptyCache
             /\ rl' = rl
             /\ \A i \in DOMAIN calls :
                   /\ calls[i].phase = "pending" => calls'[i].phase = "dropped"
                   /\ calls[i].phase # "pending" => calls'[i].phase = calls[i].phase
             /\ destroy(PState') = PState'
             /\ lastOp.op = "destroy"
                   => /\ <<cache', rl', rq', calls'>> = <<cache, rl, rq, calls>>
                      /\ prov'.cleanupInterval = prov.cleanupInterval]_vars

\* a second destroy(), with a call dropped from the queue, a call resolved and
\* slots still taken
C22_Witness ==
    /\ lastOp.op = "destroy"
    /\ prov.adminCalls = 2
    /\ \E i \in DOMAIN calls : calls[i].phase = "dropped"
    /\ \E i \in DOMAIN calls : calls[i].phase = "resolved"
    /\ rq.processing > 0

(***************************************************************************)
(* Claims about what analyze writes to the cache                           *)
(***************************************************************************)
\* an analysis of the request has resolved, within the TTL, and neither
\* clearCache() nor destroy() was called since
Served(req) ==
    \E i \in DOMAIN calls :
        /\ calls[i].req = req
        /\ calls[i].retry.pc = "resolved"
        /\ calls[i].kept
        /\ now - calls[i].resolvedAt <= ProviderCacheTTL

\* C23: with caching enabled, at the moment a call that missed the cache
\* resolves, the cache holds its result under its request's key; and a call
\* with the same request issued later, within the TTL and with no clearCache()
\* or destroy() in between, is a cache hit.
C23_WriteThrough ==
    [][/\ \A i \in DOMAIN calls :
             (prov.enableCache /\ calls[i].phase = "calling" /\ calls'[i].phase = "resolved")
                 => CacheGet(cache', calls[i].req.content, calls[i].req.options, now').value
                       = calls'[i].result
       /\ \A j \in NewCalls :
             (prov.enableCache /\ Served(calls'[j].req)) => calls'[j].phase = "hit"]_vars

C23_Witness ==
    \E i, j \in DOMAIN calls :
        /\ i < j
        /\ calls[i].req = calls[j].req
        /\ calls[i].retry.pc = "resolved"
        /\ calls[i].kept
        /\ calls[j].phase = "hit"
        /\ calls[j].result = calls[i].result
        /\ now > calls[i].resolvedAt

(***************************************************************************)
(* SpecFailing: up to MaxFailingCalls analyze calls against a backend that *)
(* fails or answers each invocation as it likes, so that a call can use up *)
(* its retries.  The clock runs on until the last timer has fired.         *)
(***************************************************************************)
MaxFailingCalls == 2

FAnalyze(req) ==
    /\ Cardinality(DOMAIN calls) < MaxFailingCalls
    /\ PAnalyze(req)

FBackendFails(i, error, rnd) ==
    /\ i \in DOMAIN calls
    /\ calls[i].phase = "calling"
    /\ Becomes(backendFailed(PState, i, error, rnd, now))
    /\ UNCHANGED <<now, prov>>

FTick == BTick /\ UNCHANGED notBatch

InitFailing == Init

NextFailing ==
    \/ \E r \in Requests : FAnalyze(r) /\ UNCHANGED notProvider
    \/ \E i \in 1..MaxFailingCalls : PTokenTimer(i) /\ UNCHANGED notProvider
    \/ \E i \in 1..MaxFailingCalls : PInvoke(i) /\ UNCHANGED notProvider
    \/ \E i \in 1..MaxFailingCalls : PBackendOk(i) /\ UNCHANGED notProvider
    \/ \E i \in 1..MaxFailingCalls, e \in {ErrConnReset, ErrAuth401} :
          FBackendFails(i, e, RandomDen - 1) /\ UNCHANGED notProvider
    \/ \E i \in 1..MaxFailingCalls : PRetryTimer(i) /\ UNCHANGED notProvider
    \/ \E i \in 1..MaxFailingCalls : PFinally(i) /\ UNCHANGED notProvider
    \/ FTick

SpecFailing == InitFailing /\ [][NextFailing]_vars

\* the entries of the cache are results of calls that resolved
OnlyResults(c) ==
    \A k \in DOMAIN c :
        \E i \in DOMAIN calls' :
            /\ calls'[i].retry.pc = "resolved"
            /\ k = generateKey(calls'[i].req.content, calls'[i].req.options)
            /\ c[k].value = calls'[i].result

\* C24: a failed analyze call caches nothing: no failed attempt and no retry
\* changes the cache, the cache holds results of resolved calls only, and the
\* call that gives up rejects with the error of its last attempt.
C24_FailureCachesNothing ==
    [][/\ \A i \in DOMAIN calls :
             /\ (calls[i].phase = "calling" /\ calls'[i].phase \in {"sleeping", "rejected"})
                   => cache' = cache
             /\ (calls[i].phase = "sleeping" /\ calls'[i].phase # "sleeping")
                   => cache' = cache
             /\ (calls[i].phase = "calling" /\ calls'[i].phase = "rejected")
                   => /\ calls'[i].retry.thrown = Last(calls'[i].retry.raised)
                      /\ calls'[i].result = Null
       /\ OnlyResults(cache')]_vars

\* a call gave up after maxRetries + 1 failed attempts and another call on
\* its first failure, and the cache is empty
C24_Witness ==
    /\ cache = EmptyCache
    /\ \E i, j \in DOMAIN calls :
          /\ calls[i].retry.pc = "rejected"
          /\ calls[i].retry.invocations = ProviderRetryOptions.maxRetries + 1
          /\ calls[j].retry.pc = "rejected"
          /\ calls[j].retry.invocations = 1

(***************************************************************************)
(* SpecParse: analyze calls against a backend that answers every           *)
(* invocation, with a payload that has or lacks each of the fields         *)
(* issues, suggestions and metrics.                                        *)
(***************************************************************************)
Payloads == {Payload(i, s, m) : i \in BOOLEAN, s \in BOOLEAN, m \in BOOLEAN}

Malformed(payload) == ~(payload.issues /\ payload.suggestions /\ payload.metrics)

PBackendAnswers(i, payload) ==
    /\ i \in DOMAIN calls
    /\ calls[i].phase = "calling"
    /\ Becomes(backendAnswered(PState, prov, i, payload, ResultOf(i), now))
    /\ lastOp' = [op |-> "answer", call |-> i, payload |-> payload]
    /\ UNCHANGED <<now, prov, notDestroy>>

InitParse == Init

NextParse ==
    \/ \E r \in Requests : PAnalyze(r) /\ Did("analyze")
    \/ \E i \in 1..MaxCalls : PTokenTimer(i) /\ Did("tokenTimer")
    \/ \E i \in 1..MaxCalls : PInvoke(i) /\ Did("invoke")
    \/ \E i \in 1..MaxCalls, p \in Payloads : PBackendAnswers(i, p)
    \/ \E i \in 1..MaxCalls : PFinally(i) /\ Did("finally")
    \/ PTick /\ Did("tick")

SpecParse == InitParse /\ [][NextParse]_vars

\* C25: a backend answer lacking one of issues, suggestions, metrics makes
\* analyze reject with the malformed-response error after that one invocation:
\* no retry is scheduled and the cache is not written.
C25_MalformedNotRetried ==
    [][(lastOp'.op = "answer" /\ Malformed(lastOp'.payload))
          => LET c == calls'[lastOp'.call] IN
             /\ c.phase = "rejected"
             /\ c.retry.pc = "rejected"
             /\ c.retry.invocations = 1
             /\ c.retry.delays = <<>>
             /\ c.retry.thrown.message = ErrInvalidStructure.message
             /\ c.result = Null
             /\ cache' = cache]_vars

C25_Witness ==
    /\ lastOp.op = "answer"
    /\ lastOp.payload = Payload(TRUE, TRUE, FALSE)
    /\ calls[lastOp.call].phase = "rejected"
    /\ \E j \in DOMAIN calls : calls[j].phase = "resolved"

(***************************************************************************)
(* The delays of withRetry                                                 *)
(***************************************************************************)
\* min(baseDelay * backoffMultiplier^attempt, maxDelay)
BaseDelayOf(opts, attempt) ==
    Min(opts.baseDelay * Pow(opts.backoffMultiplier, attempt), opts.maxDelay)

\* C26: within one withRetry call with backoffMultiplier > 1, the delays before
\* successive retries are strictly increasing and each is at most maxDelay.
C26_DelaysIncreasingAndBounded ==
    (rt.pc # "idle" /\ rt.opts.backoffMultiplier > 1)
        => \A k \in DOMAIN rt.delays :
              /\ rt.delays[k] <= rt.opts.maxDelay
              /\ k > 1 => rt.delays[k - 1] < rt.delays[k]

\* C27: the delay after failed attempt a is b + j with
\* b = min(baseDelay * backoffMultiplier^a, maxDelay) and 0 <= j <= b / 10.
C27_JitterOnlyAdded ==
    rt.pc # "idle"
        => \A k \in DOMAIN rt.delays :
              LET b == BaseDelayOf(rt.opts, k - 1)
                  j == rt.delays[k] - b
              IN 0 <= j /\ 10 * j <= b

C27_Witness ==
    /\ rt.pc = "sleeping"
    /\ rt.opts.baseDelay = 1000
    /\ Len(rt.delays) = 3
    /\ rt.delays[1] = 1000
    /\ rt.delays[2] = 2150
    /\ rt.delays[3] = 4200

\* C28 (as claimed): requests that differ in content or in options never share
\* a key: while the cache holds only the entry of the last set(c1, v, o1),
\* get(c2, o2) is a miss for every (c2, o2) other than (c1, o1).
C28_DistinctRequestsDistinctKeys ==
    (lastSet.done
       /\ DOMAIN cache = {generateKey(lastSet.content, lastSet.options)})
        => \A c2 \in Contents, o2 \in OptionSamples :
              <<c2, o2>> # <<lastSet.content, lastSet.options>>
                  => CacheGet(cache, c2, o2, now).value = Null

(***************************************************************************)
(* SpecConfigured: a provider constructed with retry parameters among its  *)
(* options, and one analyze call against a backend that answers or fails.  *)
(* lastOp keeps the constructor call.                                      *)
(***************************************************************************)
MaxConfiguredCalls == 1

\* the options handed to the constructor
ConstructorOptionSamples ==
    {[enableCache |-> ProviderEnableCache, maxRetries |-> m] : m \in 0..MaxRetriesArg}

\* the constructor builds this.options from the nine fields it names
construct(options) == NewProvider(options.enableCache)

GAnalyze(req) ==
    /\ Cardinality(DOMAIN calls) < MaxConfiguredCalls
    /\ PAnalyze(req)

InitConfigured ==
    \E o \in ConstructorOptionSamples :
        /\ now = 0
        /\ cache = EmptyCache
        /\ lastSet = NoSet
        /\ rt = RetryIdle
        /\ rl = NewRateLimiter(ProviderRateLimitTokens, ProviderRefillRate, 0)
        /\ waiters = NoWaiters
        /\ rq = NewRequestQueue(ProviderMaxConcurrency)
        /\ tasks = NoTasks
        /\ startOrder = <<>>
        /\ prov = construct(o)
        /\ calls = NoCalls
        /\ lastOp = [op |-> "new", options |-> o]
        /\ batch = NoBatch

NextConfigured ==
    \/ \E r \in Requests : GAnalyze(r) /\ UNCHANGED notProvider
    \/ \E i \in 1..MaxConfiguredCalls : PInvoke(i) /\ UNCHANGED notProvider
    \/ \E i \in 1..MaxConfiguredCalls : PBackendOk(i) /\ UNCHANGED notProvider
    \/ \E i \in 1..MaxConfiguredCalls, e \in {ErrConnReset, ErrAuth401}, rnd \in Randoms :
          FBackendFails(i, e, rnd) /\ UNCHANGED notProvider
    \/ \E i \in 1..MaxConfiguredCalls : PRetryTimer(i) /\ UNCHANGED notProvider
    \/ \E i \in 1..MaxConfiguredCalls : PFinally(i) /\ UNCHANGED notProvider
    \/ FTick

SpecConfigured == InitConfigured /\ [][NextConfigured]_vars

\* C29 (as claimed): on a provider configured with maxRetries = m, an analyze
\* call whose backend fails every time with a retryable error is rejected after
\* exactly m + 1 invocations of the backend.
C29_ConfiguredRetriesApplied ==
    \A i \in DOMAIN calls :
        (/\ calls[i].retry.pc = "rejected"
         /\ \A k \in DOMAIN calls[i].retry.raised :
               isRetryableError(calls[i].retry.raised[k],
                                calls[i].retry.opts.retryableErrors))
            => calls[i].retry.invocations = lastOp.options.maxRetries + 1

(***************************************************************************)
(* Saturation of the RequestQueue                                          *)
(***************************************************************************)
\* C30: after every enqueue and every completion handler, a pending task means
\* that processing = maxConcurrent: no slot is free while work is queued.
C30_CeilingSaturated ==
    rq.queue # <<>>
        => /\ rq.processing = rq.maxConcurrent
           /\ getStats(rq).queued > 0 => getStats(rq).processing = rq.maxConcurrent

C30_Witness ==
    /\ lastOp.op = "finally"
    /\ lastOp.after = "resolved"
    /\ lastOp.started # <<>>
    /\ Len(rq.queue) = 2
    /\ rq.processing = 2
    /\ rq.maxConcurrent = 2

(***************************************************************************)
(* The order of the steps of an analyze call                               *)
(***************************************************************************)
\* the phases a call can enter from a phase in one step
NextPhases(phase) ==
    CASE phase = "pending" -> {"waiting", "granted", "dropped"}
      [] phase = "waiting" -> {"granted"}
      [] phase = "granted" -> {"calling"}
      [] phase = "calling" -> {"sleeping", "resolved", "rejected"}
      [] phase = "sleeping" -> {"calling", "rejected"}
      [] phase = "resolved" -> {"done"}
      [] phase = "rejected" -> {"done"}
      [] OTHER -> {}

InQueue(i) == \E k \in DOMAIN rq.queue : rq.queue[k] = i

C32_ResumeKeepsOtherUpdates ==
    [][\A w \in Waiters :
          (waiters[w].pc = "waiting" /\ waiters'[w].pc = "idle")
              => Available(rl', now') >= Available(rl, now) - waiters[w].n]_vars

(***************************************************************************)
(* SpecResponse: parseResponse applied to a payload that has the three     *)
(* top-level fields.  lastOp holds the payload and then the result.        *)
(***************************************************************************)
MaxMetric == 2

MetricNames == {"complexity", "maintainability", "linesOfCode", "duplicateLines"}

ParsedSamples ==
    [issues : {<<>>, <<"issue">>},
     suggestions : {<<>>, <<"suggestion">>},
     metrics : [MetricNames -> 0..MaxMetric]]

SParse ==
    /\ lastOp.op = "payload"
    /\ lastOp' = [op |-> "parsed", parsed |-> lastOp.parsed,
                  result |-> parsedResult(lastOp.parsed)]
    /\ UNCHANGED <<now, cache, rl, rq, calls, prov, notDestroy>>

InitResponse ==
    /\ now = 0
    /\ cache = EmptyCache
    /\ lastSet = NoSet
    /\ rt = RetryIdle
    /\ rl = NewRateLimiter(1, 1, 0)
    /\ waiters = NoWaiters
    /\ rq = NewRequestQueue(1)
    /\ tasks = NoTasks
    /\ startOrder = <<>>
    /\ prov = NoProvider
    /\ calls = NoCalls
    /\ \E p \in ParsedSamples : lastOp = [op |-> "payload", parsed |-> p]
    /\ batch = NoBatch

NextResponse == SParse

SpecResponse == InitResponse /\ [][NextResponse]_vars

\* C33 (as claimed): the issues, the suggestions and each metrics field of the
\* result equal the payload's, for every value of the fields, 0 included.
C33_PayloadUnchanged ==
    lastOp.op = "parsed"
        => /\ lastOp.result.issues = lastOp.parsed.issues
           /\ lastOp.result.suggestions = lastOp.parsed.suggestions
           /\ \A m \in MetricNames :
                 lastOp.result.metrics[m] = lastOp.parsed.metrics[m]

(***************************************************************************)
(* ResponseCache.cleanup                                                   *)
(***************************************************************************)
\* C34: cleanup() removes exactly the expired entries: afterwards no entry with
\* now - timestamp > ttl remains, and every entry that was not expired is
\* still there with the same value, timestamp and ttl.
C34_CleanupRemovesExactlyExpired ==
    [][lastOp'.op = "cleanup"
          => /\ DOMAIN cache' \subseteq DOMAIN cache
             /\ \A k \in DOMAIN cache' : ~(now - cache'[k].timestamp > cache'[k].ttl)
             /\ \A k \in DOMAIN cache :
                   ~(now - cache[k].timestamp > cache[k].ttl)
                       => k \in DOMAIN cache' /\ cache'[k] = cache[k]
             /\ now' = now]_vars

\* a sweep removed an entry and kept one whose age equals its ttl
C34_Witness ==
    /\ lastOp.op = "cleanup"
    /\ lastOp.removed # {}
    /\ \E k \in DOMAIN cache : now - cache[k].timestamp = cache[k].ttl /\ cache[k].ttl > 0

(***************************************************************************)
(* SpecSweep: the provider of SpecDestroy with an interval timer that      *)
(* keeps firing for as long as it is armed.                                *)
(***************************************************************************)
SweepStep == PCleanupTimer /\ Did("cleanup")

SpecSweep == InitDestroy /\ [][NextDestroy]_vars /\ WF_vars(SweepStep)

KeyOf(req) == generateKey(req.content, req.options)

\* C35: while the provider is alive, an expired entry is eventually removed
\* from the store (or replaced by a fresh one) without any get or has; the
\* sweep runs only while the interval timer is armed, and destroy() disarms it
\* for good.
C35_ExpiredEventuallySwept ==
    /\ \A r \in Requests :
          (/\ prov.cleanupInterval
           /\ KeyOf(r) \in DOMAIN cache
           /\ now - cache[KeyOf(r)].timestamp > cache[KeyOf(r)].ttl)
              ~> (\/ KeyOf(r) \notin DOMAIN cache
                  \/ ~(now - cache[KeyOf(r)].timestamp > cache[KeyOf(r)].ttl))
    /\ [][/\ lastOp'.op = "cleanup" => prov.cleanupInterval
          /\ lastOp'.op = "destroy" => ~prov'.cleanupInterval
          /\ ~prov.cleanupInterval => ~prov'.cleanupInterval]_vars

\* the sweep emptied the store of a provider that served a single analyze call
C35_Witness ==
    /\ lastOp.op = "cleanup"
    /\ prov.cleanupInterval
    /\ Cardinality(DOMAIN calls) = 1
    /\ calls[1].phase = "done"
    /\ calls[1].kept
    /\ now - calls[1].resolvedAt > ProviderCacheTTL
    /\ cache = EmptyCache

(***************************************************************************)
(* SpecBudget: a RateLimiter that is never reset, driven by tryConsume and *)
(* waitForToken calls.  lastOp keeps the number of units granted so far.   *)
(***************************************************************************)
Granted(n) == lastOp' = [lastOp EXCEPT !.granted = @ + n]

GTick ==
    /\ now < MaxTime
    /\ now' = now + 1
    /\ UNCHANGED <<rl, waiters, lastOp>>

GTryConsume(n) ==
    LET r == tryConsume(rl, n, now) IN
    /\ rl' = r.rl
    /\ Granted(IF r.ok THEN n ELSE 0)
    /\ UNCHANGED <<now, waiters>>

GWaitForToken(w, n) ==
    LET r == waitForTokenStart(rl, n, now) IN
    /\ waiters[w].pc = "idle"
    /\ rl' = r.rl
    /\ waiters' = [waiters EXCEPT ![w] =
                     IF r.granted THEN IdleWaiter
                     ELSE [pc |-> "waiting", n |-> n, deadline |-> now + r.waitTime]]
    /\ Granted(IF r.granted THEN n ELSE 0)
    /\ UNCHANGED now

GWaitTimer(w) ==
    /\ waiters[w].pc = "waiting"
    /\ now >= waiters[w].deadline
    /\ rl' = waitForTokenResume(rl)
    /\ waiters' = [waiters EXCEPT ![w] = IdleWaiter]
    /\ Granted(waiters[w].n)
    /\ UNCHANGED now

InitBudget ==
    /\ now = 0
    /\ cache = EmptyCache
    /\ lastSet = NoSet
    /\ rt = RetryIdle
    /\ \E m \in 1..MaxCapacity, r \in 1..MaxRate :
          rl = NewRateLimiter(m * TokenUnit, r, 0)
    /\ waiters = [w \in Waiters |-> IdleWaiter]
    /\ rq = NewRequestQueue(1)
    /\ tasks = NoTasks
    /\ startOrder = <<>>
    /\ prov = NoProvider
    /\ calls = NoCalls
    /\ lastOp = [op |-> "limiter", granted |-> 0]
    /\ batch = NoBatch

NextBudget ==
    \/ GTick /\ UNCHANGED notLimiter
    \/ \E n \in Amounts : GTryConsume(n) /\ UNCHANGED notLimiter
    \/ \E w \in Waiters, n \in Amounts : GWaitForToken(w, n) /\ UNCHANGED notLimiter
    \/ \E w \in Waiters : GWaitTimer(w) /\ UNCHANGED notLimiter

SpecBudget == InitBudget /\ [][NextBudget]_vars

\* C36 (as claimed): the tokens granted up to time t by successful tryConsume
\* calls and completed waitForToken calls are at most maxTokens + refillRate * t.
C36_GrantsWithinBudget ==
    lastOp.granted <= rl.maxTokens + rl.refillRate * now

(***************************************************************************)
(* SpecQueueLive: the RequestQueue of SpecQueue with task bodies that      *)
(* terminate and completion handlers that run.                             *)
(***************************************************************************)
QStepCompletes(i) ==
    \E o \in {"resolved", "rejected"} : QTaskCompletes(i, o) /\ UNCHANGED notQueue

QStepFinally(i) == QFinally(i) /\ UNCHANGED notQueue

SpecQueueLive ==
    /\ InitQueue
    /\ [][NextQueue]_vars
    /\ \A i \in 1..MaxTasks : WF_vars(QStepCompletes(i)) /\ WF_vars(QStepFinally(i))

Settled(i) == i \in DOMAIN tasks /\ tasks[i] \in {"resolved", "rejected", "done"}

\* C37 (as claimed): every promise returned by enqueue eventually resolves or
\* rejects, the tasks still pending at a clear() included.
C37_EveryPromiseSettles ==
    \A i \in 1..MaxTasks : (i \in DOMAIN tasks) ~> Settled(i)

(***************************************************************************)
(* The cache after destroy()                                               *)
(***************************************************************************)
\* C38 (as claimed): after destroy() has returned the cache stays empty unless
\* analyze is called again: whatever happens next, other than a new analyze
\* call, leaves the cache empty.
C38_CacheEmptyAfterDestroy ==
    [][(lastOp.op = "destroy" /\ lastOp'.op # "analyze") => cache' = EmptyCache]_vars

(***************************************************************************)
(* The tokens an analyze call takes                                        *)
(***************************************************************************)
\* call i enters waitForToken in this step, or resumes from it
Acquires(i) ==
    /\ i \in DOMAIN calls'
    /\ \/ i \notin DOMAIN calls /\ calls'[i].phase \in {"waiting", "granted"}
       \/ /\ i \in DOMAIN calls
          /\ calls[i].phase \in {"pending", "waiting"}
          /\ calls'[i].phase \in {"waiting", "granted"}
          /\ calls'[i].phase # calls[i].phase

InFlight == {i \in DOMAIN tasks : tasks[i] \in {"running", "resolved", "rejected"}}

\* C40: processing is the number of tasks started whose completion has not
\* been handled yet: never negative, 0 when all work is done; and no task is
\* started twice.
C40_ProcessingCountsInFlight ==
    /\ rq.processing = Cardinality(InFlight)
    /\ rq.processing >= 0
    /\ getStats(rq).processing = rq.processing
    /\ (\A i \in DOMAIN tasks : tasks[i] \in {"done", "dropped"}) => rq.processing = 0
    /\ \A m, n \in DOMAIN startOrder : m # n => startOrder[m] # startOrder[n]
    /\ \A i \in DOMAIN tasks :
          tasks[i] \in {"pending", "dropped"} <=> \A n \in DOMAIN startOrder : startOrder[n] # i

C40_Witness ==
    /\ rq.processing = 0
    /\ Cardinality(DOMAIN tasks) = MaxTasks
    /\ \A i \in DOMAIN tasks : tasks[i] \in {"done", "dropped"}
    /\ Len(startOrder) = 3
    /\ rq.maxConcurrent = 2

====
